---- MODULE Spec2Model ----
(***************************************************************************)
(* A model of the nvdb2osmr core pipeline (src/rust/src): segments built   *)
(* from NVDB rows are tagged (tag_mapper), POI nodes are extracted         *)
(* (tag_mapper/nodes), the network is simplified into ways (topology,      *)
(* grouping, geometry) and the result is written in three passes           *)
(* (lib.rs, write_pbf_three_pass).                                         *)
(*                                                                         *)
(* Coordinates are integers: the numerators of degrees over 1e7, which is  *)
(* what ingestion leaves after rounding to 7 decimals.  Option<T> is a     *)
(* sequence of length 0 (None) or 1 (Some).  Hash maps are functions.      *)
(***************************************************************************)
EXTENDS Integers, Sequences, FiniteSets, TLC

VARIABLES
    pc,            \* position of the pipeline / of the function under study
    cfg,           \* caller-supplied arguments (method, node_id_start, way_id_start)
    input,         \* the segments as ingested, before any stage mutated them
    segments,      \* Vec<Segment> owned by process_nvdb_wkb
    nodes,         \* Vec<NodeFeature> (feature nodes)
    ways,          \* Vec<Way> returned by simplify_network
    out,           \* the elements handed to the PBF writer, in order
    node_id,       \* write_pbf_three_pass: next node ID
    way_id,        \* write_pbf_three_pass: next way ID
    junction_ids,  \* write_pbf_three_pass: CoordHash -> node ID
    idx,           \* tag_network: index of the segment being tagged
    fin,           \* arguments of the pure function under study
    fout           \* its result

vars == <<pc, cfg, input, segments, nodes, ways, out, node_id, way_id,
          junction_ids, idx, fin, fout>>

-----------------------------------------------------------------------------
(* Generic helpers *)

None == <<>>
Some(v) == <<v>>
IsSome(o) == Len(o) = 1
IsNone(o) == Len(o) = 0
Unwrap(o) == o[1]
UnwrapOr(o, d) == IF Len(o) = 1 THEN o[1] ELSE d

Abs(n) == IF n < 0 THEN -n ELSE n

Range(s) == {s[i] : i \in 1..Len(s)}

Reverse(s) == [i \in 1..Len(s) |-> s[Len(s) + 1 - i]]

Last(s) == s[Len(s)]

RECURSIVE Flatten(_)
Flatten(ss) == IF Len(ss) = 0 THEN <<>> ELSE Head(ss) \o Flatten(Tail(ss))

RECURSIVE SetToSortedSeq(_)
SetToSortedSeq(S) ==
    IF S = {} THEN <<>>
    ELSE LET m == CHOOSE a \in S : \A b \in S : a <= b
         IN  <<m>> \o SetToSortedSeq(S \ {m})

\* All orderings of a finite set, as sequences.
RECURSIVE Orderings(_)
Orderings(S) ==
    IF S = {} THEN {<<>>}
    ELSE UNION {{<<a>> \o o : o \in Orderings(S \ {a})} : a \in S}

(* FxHashMap<String, String> and FxHashMap<String, PropertyValue> *)
EmptyMap == <<>>
Has(m, k) == k \in DOMAIN m
Get(m, k) == IF k \in DOMAIN m THEN Some(m[k]) ELSE None
Insert(m, k, v) == [a \in (DOMAIN m) \cup {k} |-> IF a = k THEN v ELSE m[a]]
Remove(m, k) == [a \in (DOMAIN m) \ {k} |-> m[a]]

-----------------------------------------------------------------------------
(* i64 / f64 to_string.  A float is carried as its value in tenths. *)

Digit(d) ==
    CASE d = 0 -> "0" [] d = 1 -> "1" [] d = 2 -> "2" [] d = 3 -> "3"
      [] d = 4 -> "4" [] d = 5 -> "5" [] d = 6 -> "6" [] d = 7 -> "7"
      [] d = 8 -> "8" [] d = 9 -> "9"

RECURSIVE NatToString(_)
NatToString(n) ==
    IF n < 10 THEN Digit(n) ELSE NatToString(n \div 10) \o Digit(n % 10)

IntToString(i) == IF i < 0 THEN "-" \o NatToString(-i) ELSE NatToString(i)

\* f64 Display: the shortest form, "3" for 3.0 and "2.5" for 2.5
FloatToString(t) ==
    LET a == Abs(t)
        body == IF a % 10 = 0 THEN NatToString(a \div 10)
                ELSE NatToString(a \div 10) \o "." \o Digit(a % 10)
    IN  IF t < 0 THEN "-" \o body ELSE body

\* format!("{:.1}", f)
FormatOneDecimal(t) ==
    LET a == Abs(t)
        body == NatToString(a \div 10) \o "." \o Digit(a % 10)
    IN  IF t < 0 THEN "-" \o body ELSE body

\* `f as i64`: truncation toward zero
TruncTenths(t) == IF t < 0 THEN -((-t) \div 10) ELSE t \div 10

-----------------------------------------------------------------------------
(* models/mod.rs: PropertyValue *)

PInt(n) == [t |-> "Integer", i |-> n, s |-> ""]
PFloat(tenths) == [t |-> "Float", i |-> tenths, s |-> ""]
PStr(x) == [t |-> "String", i |-> 0, s |-> x]
PBool(b) == [t |-> "Boolean", i |-> IF b THEN 1 ELSE 0, s |-> ""]

as_string(pv) ==
    CASE pv.t = "Integer" -> IntToString(pv.i)
      [] pv.t = "Float" -> FloatToString(pv.i)
      [] pv.t = "String" -> pv.s
      [] pv.t = "Boolean" -> (IF pv.i = 1 THEN "true" ELSE "false")
      [] OTHER -> ""

as_i64(pv) ==
    CASE pv.t = "Integer" -> Some(pv.i)
      [] pv.t = "Float" -> Some(TruncTenths(pv.i))
      [] OTHER -> None

\* as_f64, in tenths
as_f64(pv) ==
    CASE pv.t = "Integer" -> Some(pv.i * 10)
      [] pv.t = "Float" -> Some(pv.i)
      [] OTHER -> None

\* properties.get(k).and_then(|v| v.as_i64())
PropI64(props, k) == IF Has(props, k) THEN as_i64(props[k]) ELSE None
\* properties.get(k).and_then(|v| v.as_f64())
PropF64(props, k) == IF Has(props, k) THEN as_f64(props[k]) ELSE None

-----------------------------------------------------------------------------
(* models/mod.rs: hash_coord, Segment *)

Coord(x, y) == [x |-> x, y |-> y]

\* The u64 ((lat as u64) << 32) | (lon as u64) as its two 32-bit words, each
\* written as a signed 32-bit value: `lon as u64` sign-extends, so a negative
\* lon sets every bit of the upper word.
hash_coord(c) ==
    [hi |-> IF c.x < 0 THEN -1 ELSE c.y, lo |-> c.x]

\* geo's euclidean_length, exact for polylines whose steps are axis-aligned
RECURSIVE geometry_length(_)
geometry_length(g) ==
    IF Len(g) < 2 THEN 0
    ELSE Abs(g[2].x - g[1].x) + Abs(g[2].y - g[1].y) + geometry_length(Tail(g))

NewSegment(geometry) ==
    [start_node |-> hash_coord(geometry[1]),
     end_node |-> hash_coord(geometry[Len(geometry)]),
     geometry |-> geometry,
     tags |-> EmptyMap,
     properties |-> EmptyMap,
     shape_length |-> geometry_length(geometry),
     internal_node_ids |-> <<>>,
     oneway_direction |-> "None"]

start_coord(seg) == seg.geometry[1]
end_coord(seg) == seg.geometry[Len(seg.geometry)]

internal_coords(seg) ==
    IF Len(seg.geometry) <= 2 THEN <<>>
    ELSE SubSeq(seg.geometry, 2, Len(seg.geometry) - 1)

-----------------------------------------------------------------------------
(* String helpers: str::trim, str::to_lowercase, str::contains *)

RECURSIVE TrimStart(_)
TrimStart(s) ==
    IF Len(s) > 0 /\ SubSeq(s, 1, 1) = " " THEN TrimStart(SubSeq(s, 2, Len(s)))
    ELSE s

RECURSIVE TrimEnd(_)
TrimEnd(s) ==
    IF Len(s) > 0 /\ SubSeq(s, Len(s), Len(s)) = " "
    THEN TrimEnd(SubSeq(s, 1, Len(s) - 1))
    ELSE s

Trim(s) == TrimEnd(TrimStart(s))

LowerChar(c) ==
    CASE c = "A" -> "a" [] c = "B" -> "b" [] c = "C" -> "c" [] c = "D" -> "d"
      [] c = "E" -> "e" [] c = "F" -> "f" [] c = "G" -> "g" [] c = "H" -> "h"
      [] c = "I" -> "i" [] c = "J" -> "j" [] c = "K" -> "k" [] c = "L" -> "l"
      [] c = "M" -> "m" [] c = "N" -> "n" [] c = "O" -> "o" [] c = "P" -> "p"
      [] c = "Q" -> "q" [] c = "R" -> "r" [] c = "S" -> "s" [] c = "T" -> "t"
      [] c = "U" -> "u" [] c = "V" -> "v" [] c = "W" -> "w" [] c = "X" -> "x"
      [] c = "Y" -> "y" [] c = "Z" -> "z" [] OTHER -> c

RECURSIVE ToLowercase(_)
ToLowercase(s) ==
    IF Len(s) = 0 THEN ""
    ELSE LowerChar(SubSeq(s, 1, 1)) \o ToLowercase(SubSeq(s, 2, Len(s)))

Contains(s, sub) ==
    \E i \in 1..(Len(s) - Len(sub) + 1) : SubSeq(s, i, i + Len(sub) - 1) = sub

-----------------------------------------------------------------------------
(* tag_mapper/mod.rs *)

SetTag(seg, k, v) == [seg EXCEPT !.tags = Insert(@, k, v)]

\* segment.properties.get(k).and_then(|v| v.as_i64())
SegI64(seg, k) == PropI64(seg.properties, k)
SegF64(seg, k) == PropF64(seg.properties, k)
\* ... .unwrap_or(0) > 0
Truthy(seg, k) == UnwrapOr(SegI64(seg, k), 0) > 0

BridgeMargin == 500000000

NewBridge ==
    [car_count |-> 0, cycle_count |-> 0, length |-> 0, layer |-> "1",
     tag |-> "bridge"]

\* first pass of detect_bridges: one segment folded into the bridge table
CollectBridge(bridges, segment) ==
    IF Has(segment.properties, "Ident_191") /\ Has(segment.properties, "Konst_190")
    THEN LET bridge_id == as_string(segment.properties["Ident_191"])
             construction == UnwrapOr(as_i64(segment.properties["Konst_190"]), 0)
             bridge == IF Has(bridges, bridge_id) THEN bridges[bridge_id]
                       ELSE NewBridge
             net_type == SegI64(segment, "Vagtr_474")
             updated ==
                 CASE construction \in {2, 4} ->
                        IF IsSome(net_type)
                        THEN IF Unwrap(net_type) = 1 /\ construction # 3
                             THEN [bridge EXCEPT !.car_count = @ + 1]
                             ELSE [bridge EXCEPT !.cycle_count = @ + 1]
                        ELSE bridge
                   [] construction = 1 ->
                        IF segment.shape_length > bridge.length
                        THEN [bridge EXCEPT !.length = segment.shape_length]
                        ELSE bridge
                   [] OTHER -> bridge
         IN  Insert(bridges, bridge_id, updated)
    ELSE bridges

RECURSIVE CollectBridges(_, _)
CollectBridges(bridges, segs) ==
    IF Len(segs) = 0 THEN bridges
    ELSE CollectBridges(CollectBridge(bridges, Head(segs)), Tail(segs))

\* a variant of the second pass that lets a cycleway underneath decide first
DecideBridgeTagCycleFirst(bridge) ==
    IF bridge.cycle_count > 0
    THEN [bridge EXCEPT !.tag = "tunnel"]
    ELSE [bridge EXCEPT !.tag = "bridge"]

\* second pass of detect_bridges
DecideBridgeTag(bridge) ==
    IF bridge.car_count > 0 \/ bridge.length > BridgeMargin
    THEN [bridge EXCEPT !.tag = "bridge"]
    ELSE IF bridge.cycle_count > 0
         THEN [bridge EXCEPT !.tag = "tunnel"]
         ELSE [bridge EXCEPT !.tag = "bridge"]

detect_bridges(segs) ==
    LET collected == CollectBridges(EmptyMap, segs)
    IN  [id \in DOMAIN collected |-> DecideBridgeTag(collected[id])]

\* One segment's contribution to build_street_names
StreetNameOf(segment) ==
    IF UnwrapOr(SegI64(segment, "Vagtr_474"), 0) = 1
       /\ Has(segment.properties, "Namn_130")
    THEN LET s == Trim(as_string(segment.properties["Namn_130"]))
         IN  IF s # "" /\ s # "NA" THEN {s} ELSE {}
    ELSE {}

build_street_names(segs) == UNION {StreetNameOf(segs[i]) : i \in 1..Len(segs)}

map_bridge_tunnel(segment, bridges) ==
    IF ~Has(segment.properties, "Konst_190") THEN segment
    ELSE
    LET construction == UnwrapOr(as_i64(segment.properties["Konst_190"]), 0)
        has_id == Has(segment.properties, "Ident_191")
        bridge_id == IF has_id THEN as_string(segment.properties["Ident_191"])
                     ELSE ""
        known == has_id /\ Has(bridges, bridge_id)
    IN  CASE construction \in {1, 4} ->
               LET s1 == SetTag(segment, "bridge", "yes")
               IN  IF known THEN SetTag(s1, "layer", bridges[bridge_id].layer)
                   ELSE s1
          [] construction \in {2, 3} ->
               LET net_type == UnwrapOr(SegI64(segment, "Vagtr_474"), 0)
                   is_long == segment.shape_length > BridgeMargin
                   should_be_tunnel ==
                       IF construction = 3 THEN TRUE
                       ELSE IF known
                            THEN bridges[bridge_id].tag = "tunnel"
                            ELSE net_type # 1 \/ is_long
               IN  IF should_be_tunnel
                   THEN SetTag(SetTag(segment, "tunnel", "yes"), "layer", "-1")
                   ELSE segment
          [] OTHER -> segment

\* The geometry reversal of map_oneway with its start_node/end_node refresh
ReverseSegmentNoRefresh(segment) ==
    [segment EXCEPT !.geometry = Reverse(@)]

ReverseSegment(segment) ==
    LET g == Reverse(segment.geometry)
    IN  [segment EXCEPT !.geometry = g,
                        !.start_node = hash_coord(g[1]),
                        !.end_node = hash_coord(g[Len(g)])]

map_oneway_no_reverse(segment) ==
    LET f_forbidden == Truthy(segment, "F_ForbjudenFardriktning")
        b_forbidden == Truthy(segment, "B_ForbjudenFardriktning")
        s1 == IF (b_forbidden /\ ~f_forbidden) \/ (f_forbidden /\ ~b_forbidden)
              THEN [SetTag(segment, "oneway", "yes")
                       EXCEPT !.oneway_direction =
                           IF b_forbidden THEN "Forward" ELSE "Backward"]
              ELSE segment
    IN  s1

map_oneway(segment) ==
    LET f_forbidden == Truthy(segment, "F_ForbjudenFardriktning")
        b_forbidden == Truthy(segment, "B_ForbjudenFardriktning")
        s1 == IF b_forbidden /\ ~f_forbidden
              THEN [SetTag(segment, "oneway", "yes")
                       EXCEPT !.oneway_direction = "Forward"]
              ELSE IF f_forbidden /\ ~b_forbidden
                   THEN [SetTag(ReverseSegment(segment), "oneway", "yes")
                            EXCEPT !.oneway_direction = "Backward"]
                   ELSE segment
    IN  IF s1.oneway_direction = "None" /\ SegI64(s1, "Korfa_524") = Some(1)
        THEN [SetTag(s1, "oneway", "yes") EXCEPT !.oneway_direction = "Forward"]
        ELSE s1

\* The value a non-zero prop contributes in tag_direction
DirectionValue(value, v) ==
    IF IsSome(value) /\ v = 1 THEN Unwrap(value) ELSE IntToString(v)

tag_direction_no_collapse(tags, oneway, tag, value, prop_forward, prop_backward) ==
    LET pf == IF IsSome(prop_forward) /\ Unwrap(prop_forward) # 0
              THEN prop_forward ELSE None
        pb == IF IsSome(prop_backward) /\ Unwrap(prop_backward) # 0
              THEN prop_backward ELSE None
        t1 == IF IsSome(pf)
              THEN Insert(tags, tag \o ":forward", DirectionValue(value, Unwrap(pf)))
              ELSE tags
    IN  IF IsSome(pb)
        THEN Insert(t1, tag \o ":backward", DirectionValue(value, Unwrap(pb)))
        ELSE t1

tag_direction(tags, oneway, tag, value, prop_forward, prop_backward) ==
    LET pf == IF IsSome(prop_forward) /\ Unwrap(prop_forward) # 0
              THEN prop_forward ELSE None
        pb == IF IsSome(prop_backward) /\ Unwrap(prop_backward) # 0
              THEN prop_backward ELSE None
        val_f == IF IsSome(pf) THEN Some(DirectionValue(value, Unwrap(pf)))
                 ELSE None
        val_b == IF IsSome(pb) THEN Some(DirectionValue(value, Unwrap(pb)))
                 ELSE None
        t1 == IF IsSome(val_f)
              THEN CASE oneway = "Backward" -> tags
                     [] oneway = "Forward" -> Insert(tags, tag, Unwrap(val_f))
                     [] OTHER -> Insert(tags, tag \o ":forward", Unwrap(val_f))
              ELSE tags
        t2 == IF IsSome(val_b)
              THEN CASE oneway = "Forward" -> t1
                     [] oneway = "Backward" -> Insert(t1, tag, Unwrap(val_b))
                     [] OTHER -> Insert(t1, tag \o ":backward", Unwrap(val_b))
              ELSE t1
    IN  IF IsNone(pf) /\ IsNone(pb) THEN tags
        ELSE IF IsSome(val_f) /\ IsSome(val_b) /\ val_f = val_b
             THEN Insert(tags, tag, Unwrap(val_f))
             ELSE t2

\* tag_direction applied to a segment's tags with its own oneway_direction
TagDirection(segment, tag, value, f, b) ==
    [segment EXCEPT
        !.tags = tag_direction(@, segment.oneway_direction, tag, value, f, b)]

\* map_highway, STEP 0: the ferry branch (returns early)
MapHighwayFerry(segment) ==
    LET s1 == SetTag(SetTag(segment, "route", "ferry"), "foot", "yes")
        net_type == UnwrapOr(SegI64(segment, "Vagtr_474"), 0)
        s2 == SetTag(s1, "motor_vehicle", IF net_type = 1 THEN "yes" ELSE "no")
        kateg == SegI64(segment, "Kateg_380")
        ferry_cat == IF IsNone(kateg) THEN ""
                     ELSE CASE Unwrap(kateg) \in {1, 2} -> "trunk"
                            [] Unwrap(kateg) = 3 -> "primary"
                            [] Unwrap(kateg) = 4 -> "secondary"
                            [] OTHER -> ""
        s3 == IF ferry_cat # "" THEN SetTag(s2, "ferry", ferry_cat) ELSE s2
        huvnr_str == IF Has(segment.properties, "Huvnr_556_1")
                     THEN as_string(segment.properties["Huvnr_556_1"]) ELSE ""
        s4 == IF Has(segment.properties, "Huvnr_556_1")
                 /\ huvnr_str # "" /\ huvnr_str # "0"
              THEN IF UnwrapOr(kateg, 0) = 1
                   THEN SetTag(s3, "ref", "E " \o huvnr_str)
                   ELSE SetTag(s3, "ref", huvnr_str)
              ELSE s3
        name_str == IF Has(segment.properties, "Farje_139")
                    THEN Trim(as_string(segment.properties["Farje_139"])) ELSE ""
    IN  IF name_str # "" /\ name_str # "NA" THEN SetTag(s4, "name", name_str)
        ELSE s4

\* map_highway, STEP 1: the GCM type table
MapGcmType(segment, gcm_typ, net_type) ==
    CASE gcm_typ \in {1, 2, 3, 5, 8, 9, 13, 15, 28} ->
           SetTag(segment, "highway", "cycleway")
      [] gcm_typ \in {4, 10, 11, 25} -> SetTag(segment, "highway", "footway")
      [] gcm_typ = 12 ->
           SetTag(SetTag(segment, "highway", "footway"), "footway", "sidewalk")
      [] gcm_typ = 14 ->
           SetTag(SetTag(segment, "highway", "footway"), "covered", "yes")
      [] gcm_typ = 16 -> SetTag(segment, "highway", "platform")
      [] gcm_typ = 17 -> SetTag(segment, "highway", "steps")
      [] gcm_typ \in {18, 19} ->
           SetTag(SetTag(segment, "highway", "footway"), "conveying", "yes")
      [] gcm_typ \in {20, 21} -> SetTag(segment, "highway", "elevator")
      [] gcm_typ = 22 -> SetTag(segment, "aerialway", "cable_car")
      [] gcm_typ = 23 -> SetTag(segment, "railway", "furnicular")
      [] gcm_typ \in {24, 26} -> SetTag(segment, "highway", "pedestrian")
      [] gcm_typ = 27 ->
           SetTag(SetTag(SetTag(segment, "route", "ferry"), "foot", "yes"),
                  "motor_vehicle", "no")
      [] gcm_typ = 29 ->
           SetTag(SetTag(segment, "highway", "cycleway"), "foot", "no")
      [] OTHER ->
           SetTag(segment, "highway",
                  IF net_type = 2 THEN "cycleway" ELSE "footway")

\* map_highway, STEP 1: the cycleway/footway branch (returns early)
MapHighwayCycleway(segment, street_names, net_type) ==
    LET l_separ == UnwrapOr(SegI64(segment, "L_Separ_500"), 0)
        r_separ == UnwrapOr(SegI64(segment, "R_Separ_500"), 0)
        gcm == SegI64(segment, "GCM_t_502")
        s1 == IF l_separ = 1 \/ r_separ = 1
              THEN SetTag(SetTag(segment, "highway", "footway"),
                          "footway", "sidewalk")
              ELSE IF IsSome(gcm) THEN MapGcmType(segment, Unwrap(gcm), net_type)
              ELSE SetTag(segment, "highway",
                          IF net_type = 2 THEN "cycleway" ELSE "footway")
        \* swap cycleway to footway on the footway network
        s2 == IF net_type = 4 /\ Get(s1.tags, "highway") = Some("cycleway")
              THEN LET t1 == Insert(s1.tags, "highway", "footway")
                   IN  [s1 EXCEPT !.tags =
                           IF Has(t1, "cycleway")
                           THEN Insert(Remove(t1, "cycleway"), "footway",
                                       t1["cycleway"])
                           ELSE t1]
              ELSE s1
        name_str == IF Has(segment.properties, "Namn_130")
                    THEN Trim(as_string(segment.properties["Namn_130"])) ELSE ""
        highway == UnwrapOr(Get(s2.tags, "highway"), "")
        name_lower == ToLowercase(name_str)
        s3 == IF name_str # "" /\ name_str # "NA"
                 /\ (\/ highway = "pedestrian"
                     \/ Contains(name_lower, "stig")
                     \/ Contains(name_lower, "gång")
                     \/ Contains(name_lower, "park")
                     \/ name_str \notin street_names)
              THEN SetTag(s2, "name", name_str) ELSE s2
        s4 == IF Truthy(segment, "GCM_belyst") /\ Has(s3.tags, "highway")
              THEN SetTag(s3, "lit", "yes") ELSE s3
        cykel == IF Has(segment.properties, "Namn_457")
                 THEN Trim(as_string(segment.properties["Namn_457"])) ELSE ""
        s5 == IF cykel # "" /\ cykel # "NA"
                 /\ Get(s4.tags, "highway") = Some("cycleway")
              THEN SetTag(s4, "cycleway:name", cykel) ELSE s4
        n132 == IF Has(segment.properties, "Namn_132")
                THEN as_string(segment.properties["Namn_132"]) ELSE ""
        n193 == IF Has(segment.properties, "Namn_193")
                THEN as_string(segment.properties["Namn_193"]) ELSE ""
        s6 == IF Has(s5.tags, "bridge") /\ n132 # "" /\ Contains(n132, "bron")
              THEN SetTag(s5, "bridge:name", Trim(n132)) ELSE s5
    IN  IF Has(s5.tags, "bridge") /\ n193 # ""
        THEN SetTag(s6, "description", Trim(n193)) ELSE s6

\* map_highway, STEPS 2-6: motor vehicle roads
MapHighwayRoad(segment) ==
    LET kateg == SegI64(segment, "Kateg_380")
        klass_o == SegI64(segment, "Klass_181")
        vagha == UnwrapOr(SegI64(segment, "Vagha_6"), 0)
        klass == UnwrapOr(klass_o, 0)
        tillg == UnwrapOr(SegI64(segment, "Tillg_169"), 0)
        namn == IF Has(segment.properties, "Namn_130")
                THEN as_string(segment.properties["Namn_130"]) ELSE ""
        has_namn == Has(segment.properties, "Namn_130") /\ namn # "" /\ namn # "NA"
        slitl == UnwrapOr(SegI64(segment, "Slitl_152"), 0)
        tatt == UnwrapOr(SegI64(segment, "TattbebyggtOmrade"), 0)
        vagnr == IF Has(segment.properties, "Vagnr_10370")
                 THEN as_string(segment.properties["Vagnr_10370"]) ELSE ""
        has_vagnr == Has(segment.properties, "Vagnr_10370")
                     /\ vagnr # "" /\ vagnr # "0" /\ vagnr # "NA"
        urban == IF tatt = 1 \/ tatt = -1 THEN "residential" ELSE "unclassified"
        hw ==
            IF IsSome(kateg) /\ Unwrap(kateg) \in {1, 2} THEN "trunk"
            ELSE IF kateg = Some(3) THEN "primary"
            ELSE IF kateg = Some(4) THEN "secondary"
            ELSE IF Truthy(segment, "L_Gagata") \/ Truthy(segment, "R_Gagata")
                 THEN "pedestrian"
            ELSE IF Truthy(segment, "L_Gangfartsomrade")
                    \/ Truthy(segment, "R_Gangfartsomrade")
                 THEN "living_street"
            ELSE IF IsSome(klass_o) /\ klass > 0 /\ klass < 6 THEN "tertiary"
            ELSE IF vagha = 3
                 THEN IF (klass > 0 /\ klass < 8) \/ has_vagnr
                         \/ (klass = 8 /\ tillg = 0)
                      THEN urban
                      ELSE IF tillg > 0 /\ ~has_namn /\ slitl # 1 THEN "track"
                      ELSE "service"
            ELSE IF tillg > 0 /\ ~has_namn /\ slitl # 1 THEN "track"
            ELSE IF klass = 9 \/ (klass = 8 /\ tillg > 0) THEN "service"
            ELSE urban
    IN  SetTag(segment, "highway", hw)

map_highway_no_ferry(segment, street_names) ==
    LET net_type == UnwrapOr(SegI64(segment, "Vagtr_474"), 1)
    IN  IF net_type = 2 \/ net_type = 4
        THEN MapHighwayCycleway(segment, street_names, net_type)
        ELSE MapHighwayRoad(segment)

map_highway(segment, street_names) ==
    IF Truthy(segment, "Farjeled") THEN MapHighwayFerry(segment)
    ELSE LET net_type == UnwrapOr(SegI64(segment, "Vagtr_474"), 1)
         IN  IF net_type = 2 \/ net_type = 4
             THEN MapHighwayCycleway(segment, street_names, net_type)
             ELSE MapHighwayRoad(segment)

map_motorway_override(segment) ==
    IF Truthy(segment, "Motorvag") THEN SetTag(segment, "highway", "motorway")
    ELSE IF Truthy(segment, "Motortrafikled")
         THEN SetTag(segment, "motorroad", "yes")
         ELSE segment

map_highway_links(segment) ==
    LET highway == UnwrapOr(Get(segment.tags, "highway"), "")
        delivery_class == SegI64(segment, "Lever_292")
    IN  IF /\ highway \in {"motorway", "trunk", "primary"}
           /\ IsNone(SegI64(segment, "FPV_k_309"))
           /\ IsSome(delivery_class) /\ Unwrap(delivery_class) < 4
           /\ ~(Truthy(segment, "F_Cirkulationsplats")
                \/ Truthy(segment, "B_Cirkulationsplats"))
        THEN SetTag(segment, "highway", highway \o "_link")
        ELSE segment

CountyCodes ==
    (1 :> "AB") @@ (3 :> "C") @@ (4 :> "D") @@ (5 :> "E") @@ (6 :> "F")
    @@ (7 :> "G") @@ (8 :> "H") @@ (9 :> "I") @@ (10 :> "K") @@ (11 :> "L")
    @@ (12 :> "M") @@ (13 :> "N") @@ (14 :> "O") @@ (15 :> "P") @@ (16 :> "R")
    @@ (17 :> "S") @@ (18 :> "T") @@ (19 :> "U") @@ (20 :> "W") @@ (21 :> "X")
    @@ (22 :> "Y") @@ (23 :> "Z") @@ (24 :> "AC") @@ (25 :> "BD")

\* i64 division truncates toward zero
DivTrunc(a, b) == IF a < 0 THEN -((-a) \div b) ELSE a \div b

map_ref(segment) ==
    LET kateg == SegI64(segment, "Kateg_380")
        has_huvnr == Has(segment.properties, "Huvnr_556_1")
        huvnr_str == IF has_huvnr THEN as_string(segment.properties["Huvnr_556_1"])
                     ELSE ""
        kommun == SegI64(segment, "Kommu_141")
        county_num == DivTrunc(UnwrapOr(kommun, 0), 100)
    IN  IF IsNone(kateg) \/ ~has_huvnr \/ huvnr_str \in {"", "0", "-1"}
        THEN segment
        ELSE CASE Unwrap(kateg) = 1 -> SetTag(segment, "ref", "E " \o huvnr_str)
               [] Unwrap(kateg) \in {2, 3} -> SetTag(segment, "ref", huvnr_str)
               [] Unwrap(kateg) = 4 ->
                    IF IsSome(kommun) /\ county_num \in DOMAIN CountyCodes
                    THEN SetTag(segment, "ref",
                                CountyCodes[county_num] \o " " \o huvnr_str)
                    ELSE segment
               [] OTHER -> segment

map_roundabout(segment) ==
    TagDirection(segment, "junction", Some("roundabout"),
                 SegI64(segment, "F_Cirkulationsplats"),
                 SegI64(segment, "B_Cirkulationsplats"))

\* speed.filter(|&v| v > 0 && v <= 120)
SpeedFilter(o) == IF IsSome(o) /\ Unwrap(o) > 0 /\ Unwrap(o) <= 120 THEN o ELSE None

map_maxspeed(segment) ==
    LET highway == UnwrapOr(Get(segment.tags, "highway"), "")
        speed_f == SegI64(segment, "F_Hogst_225")
        speed_b == SegI64(segment, "B_Hogst_225")
    IN  IF highway = "track" /\ speed_f = Some(70) /\ speed_b = Some(70)
        THEN segment
        ELSE TagDirection(segment, "maxspeed", None,
                          SpeedFilter(speed_f), SpeedFilter(speed_b))

map_motor_vehicle_access(segment) ==
    TagDirection(segment, "motor_vehicle", Some("no"),
                 SegI64(segment, "F_ForbudTrafik"),
                 SegI64(segment, "B_ForbudTrafik"))

VehicleTypeMap ==
    (10 :> "motorcar") @@ (20 :> "bus") @@ (30 :> "bicycle") @@ (40 :> "vehicle")
    @@ (90 :> "hgv") @@ (100 :> "goods") @@ (120 :> "moped") @@ (130 :> "moped")
    @@ (140 :> "moped") @@ (150 :> "motorcycle") @@ (170 :> "motor_vehicle")
    @@ (180 :> "motor_vehicle") @@ (210 :> "motorcar") @@ (230 :> "atv")
    @@ (270 :> "tractor") @@ (280 :> "hgv")

\* A single-value size limit: the tag is set when 0 < value < limit (tenths)
MapLimit(segment, prop, tag, limit) ==
    LET v == SegF64(segment, prop)
    IN  IF IsSome(v) /\ Unwrap(v) > 0 /\ Unwrap(v) < limit
        THEN SetTag(segment, tag, FormatOneDecimal(Unwrap(v)))
        ELSE segment

\* map_vehicle_restrictions: directional maxweight from F_/B_Hogst_24
MapMaxWeight(segment) ==
    LET weight_f == SegF64(segment, "F_Hogst_24")
        weight_b == SegF64(segment, "B_Hogst_24")
        wf == IF IsSome(weight_f) /\ Unwrap(weight_f) > 0 /\ Unwrap(weight_f) < 1000
              THEN weight_f ELSE None
        wb == IF IsSome(weight_b) /\ Unwrap(weight_b) > 0 /\ Unwrap(weight_b) < 1000
              THEN weight_b ELSE None
    IN  IF IsSome(wf) /\ IsSome(wb)
        THEN IF Abs(Unwrap(wf) - Unwrap(wb)) < 1
             THEN SetTag(segment, "maxweight", FormatOneDecimal(Unwrap(wf)))
             ELSE SetTag(SetTag(segment, "maxweight:forward",
                                FormatOneDecimal(Unwrap(wf))),
                         "maxweight:backward", FormatOneDecimal(Unwrap(wb)))
        ELSE IF IsSome(wf)
             THEN SetTag(segment, "maxweight:forward", FormatOneDecimal(Unwrap(wf)))
        ELSE IF IsSome(wb)
             THEN SetTag(segment, "maxweight:backward", FormatOneDecimal(Unwrap(wb)))
        ELSE segment

\* map_vehicle_restrictions: bridge weight limit fallback
MapBridgeWeight(segment) ==
    LET barig == SegI64(segment, "Barig_64")
        maxweight == IF IsNone(barig) THEN ""
                     ELSE CASE Unwrap(barig) = 1 -> "64.0"
                            [] Unwrap(barig) = 2 -> "51.4"
                            [] Unwrap(barig) = 3 -> "37.5"
                            [] Unwrap(barig) \in {4, 5} -> "74.0"
                            [] OTHER -> ""
    IN  IF Has(segment.tags, "bridge") /\ ~Has(segment.tags, "maxweight")
           /\ maxweight # ""
        THEN SetTag(segment, "maxweight", maxweight)
        ELSE segment

\* map_vehicle_restrictions: one direction of F_/B_Gallar_135
ApplyVehicleRestriction(segment, is_forward) ==
    LET oneway == segment.oneway_direction
        vehicle_type == SegI64(segment, IF is_forward THEN "F_Gallar_135"
                                        ELSE "B_Gallar_135")
        total == SegF64(segment, IF is_forward THEN "F_Total_136"
                                 ELSE "B_Total_136")
        weight_limit == IF IsSome(total) /\ Unwrap(total) > 0 THEN total ELSE None
        suffix == IF is_forward THEN ":forward" ELSE ":backward"
        blocked == IF is_forward THEN "Backward" ELSE "Forward"
        collapsed == IF is_forward THEN "Forward" ELSE "Backward"
    IN  IF IsNone(vehicle_type) \/ Unwrap(vehicle_type) \notin DOMAIN VehicleTypeMap
        THEN segment
        ELSE
        LET osm_tag == VehicleTypeMap[Unwrap(vehicle_type)]
        IN  IF IsSome(weight_limit)
            THEN IF osm_tag = "hgv"
                 THEN SetTag(segment, "maxweight" \o suffix,
                             FloatToString(Unwrap(weight_limit)))
                 ELSE LET tag_value == "no @ (weight>"
                                       \o FloatToString(Unwrap(weight_limit)) \o ")"
                      IN  IF oneway = blocked THEN segment
                          ELSE IF oneway = collapsed
                               THEN SetTag(segment, osm_tag \o ":conditional",
                                           tag_value)
                               ELSE SetTag(segment,
                                           osm_tag \o suffix \o ":conditional",
                                           tag_value)
            ELSE IF oneway = blocked THEN segment
                 ELSE IF oneway = collapsed THEN SetTag(segment, osm_tag, "no")
                 ELSE SetTag(segment, osm_tag \o suffix, "no")

map_vehicle_restrictions(segment) ==
    LET s1 == MapLimit(segment, "Fri_h_143", "maxheight", 100)
        s2 == MapLimit(s1, "Hogst_46", "maxlength", 500)
        s3 == MapLimit(s2, "Hogst_36", "maxwidth", 100)
        s4 == MapLimit(s3, "Hogst_55_30", "maxaxleload", 1000)
        s5 == MapMaxWeight(s4)
        s6 == IF SegI64(s5, "Framk_161") = Some(4) THEN SetTag(s5, "hgv", "no")
              ELSE s5
        s7 == MapBridgeWeight(s6)
    IN  ApplyVehicleRestriction(ApplyVehicleRestriction(s7, TRUE), FALSE)

map_hazmat(segment) ==
    LET s1 == IF Truthy(segment, "Rekom_185")
              THEN SetTag(segment, "hazmat", "designated") ELSE segment
        hf == IF Truthy(segment, "F_Beskr_124") THEN Some(1) ELSE None
        hb == IF Truthy(segment, "B_Beskr_124") THEN Some(1) ELSE None
    IN  TagDirection(s1, "hazmat", Some("no"), hf, hb)

map_overtaking_restrictions(segment) ==
    TagDirection(segment, "overtaking", Some("no"),
                 SegI64(segment, "F_Omkorningsforbud"),
                 SegI64(segment, "B_Omkorningsforbud"))

map_lanes(segment) ==
    LET lane_count == SegI64(segment, "Korfa_497")
        is_oneway == segment.oneway_direction # "None"
        s1 == IF IsSome(lane_count)
                 /\ (Unwrap(lane_count) > 2 \/ (is_oneway /\ Unwrap(lane_count) > 1))
              THEN SetTag(segment, "lanes", IntToString(Unwrap(lane_count)))
              ELSE segment
        f_psv == UnwrapOr(SegI64(segment, "F_Korfa_517"), 0)
        b_psv == UnwrapOr(SegI64(segment, "B_Korfa_517"), 0)
        f_bus == IF f_psv = 2 THEN Some(1) ELSE None
        b_bus == IF b_psv = 2 THEN Some(1) ELSE None
        f_psv_lane == IF f_psv = 1 THEN Some(1) ELSE None
        b_psv_lane == IF b_psv = 1 THEN Some(1) ELSE None
        s2 == TagDirection(s1, "psv", Some("yes"), f_bus, b_bus)
        s3 == TagDirection(s2, "motor_vehicle", Some("no"), f_bus, b_bus)
    IN  TagDirection(s3, "lanes:psv", Some("1"), f_psv_lane, b_psv_lane)

\* the guard shared by map_surface, map_width and map_name
IsGcmOrFerry(segment) ==
    \/ UnwrapOr(SegI64(segment, "Vagtr_474"), 1) \in {2, 4}
    \/ Has(segment.tags, "route")

map_surface(segment) ==
    LET code == SegI64(segment, "Slitl_152")
    IN  IF IsGcmOrFerry(segment) \/ IsNone(code) THEN segment
        ELSE CASE Unwrap(code) = 1 -> SetTag(segment, "surface", "paved")
               [] Unwrap(code) = 2 -> SetTag(segment, "surface", "unpaved")
               [] OTHER -> segment

map_width(segment) ==
    IF IsGcmOrFerry(segment) THEN segment
    ELSE MapLimit(segment, "Bredd_156", "width", 500)

map_priority_road(segment) ==
    IF Has(segment.properties, "Huvnr_556_1")
       /\ as_string(segment.properties["Huvnr_556_1"]) \notin {"", "0"}
    THEN SetTag(segment, "priority_road", "designated")
    ELSE segment

map_bicycle_designated(segment) ==
    IF UnwrapOr(SegI64(segment, "Vagtr_474"), 1) \in {2, 4} THEN segment
    ELSE IF SegI64(segment, "C_Rekbilvagcykeltrafik") = Some(1)
         THEN SetTag(segment, "bicycle", "designated")
         ELSE segment

map_low_emission_zone(segment) ==
    LET miljozon == SegI64(segment, "Miljozon")
    IN  IF IsNone(miljozon) THEN segment
        ELSE IF Unwrap(miljozon) = 1
             THEN SetTag(segment, "low_emission_zone", "yes")
        ELSE IF Unwrap(miljozon) > 1
             THEN SetTag(segment, "low_emission_zone", IntToString(Unwrap(miljozon)))
        ELSE segment

\* map_name: a usable name from a property, if any
UsableName(segment, prop) ==
    IF Has(segment.properties, prop)
       /\ Trim(as_string(segment.properties[prop])) \notin {"", "NA", "-1"}
    THEN Some(as_string(segment.properties[prop]))
    ELSE None

map_name(segment) ==
    LET n130 == UsableName(segment, "Namn_130")
        name == IF IsSome(n130) THEN n130 ELSE UsableName(segment, "Namn_132")
    IN  IF \/ IsGcmOrFerry(segment)
           \/ Truthy(segment, "F_Cirkulationsplats")
           \/ Truthy(segment, "B_Cirkulationsplats")
           \/ IsNone(name)
        THEN segment
        ELSE SetTag(segment, "name", Trim(Unwrap(name)))

map_bridge_tunnel_names(segment) ==
    LET is_bridge == Has(segment.tags, "bridge")
        is_tunnel == Has(segment.tags, "tunnel")
        n132 == IF Has(segment.properties, "Namn_132")
                THEN Trim(as_string(segment.properties["Namn_132"])) ELSE ""
        s1 == IF n132 # ""
              THEN IF is_tunnel /\ Contains(ToLowercase(n132), "tunneln")
                   THEN SetTag(segment, "tunnel:name", n132)
                   ELSE IF is_bridge /\ Contains(ToLowercase(n132), "bron")
                        THEN SetTag(segment, "bridge:name", n132)
                        ELSE segment
              ELSE segment
        n193 == IF Has(segment.properties, "Namn_193")
                THEN Trim(as_string(segment.properties["Namn_193"])) ELSE ""
    IN  IF (is_bridge \/ is_tunnel) /\ n193 # ""
        THEN SetTag(s1, "description", n193)
        ELSE s1

map_lit(segment) ==
    IF SegI64(segment, "GCM_belyst") = Some(1) THEN SetTag(segment, "lit", "yes")
    ELSE segment

map_layer(segment) ==
    IF Has(segment.tags, "bridge") /\ ~Has(segment.tags, "layer")
    THEN SetTag(segment, "layer", "1")
    ELSE segment

\* tag_isolated_tracks, for one segment
TagIsolatedTrack(segment) ==
    LET tillg == UnwrapOr(SegI64(segment, "Tillg_169"), 0)
        namn == IF Has(segment.properties, "Namn_130")
                THEN as_string(segment.properties["Namn_130"]) ELSE ""
        has_namn == Has(segment.properties, "Namn_130") /\ namn # "" /\ namn # "NA"
        slitl == UnwrapOr(SegI64(segment, "Slitl_152"), 0)
    IN  IF Get(segment.tags, "highway") = Some("service")
           /\ tillg > 0 /\ ~has_namn /\ slitl # 1
        THEN SetTag(segment, "highway", "track")
        ELSE segment

\* Sequencing: v is evaluated first, then F continues with its value
Bind(v, F(_)) == CHOOSE r \in {F(x) : x \in {v}} : TRUE

\* tag_network: the i-th mapper of the main loop body, in source order
ApplyMapper(i, segment, bridges, street_names) ==
    CASE i = 1 -> map_bridge_tunnel(segment, bridges)
      [] i = 2 -> map_oneway(segment)
      [] i = 3 -> map_highway(segment, street_names)
      [] i = 4 -> map_motorway_override(segment)
      [] i = 5 -> map_highway_links(segment)
      [] i = 6 -> map_ref(segment)
      [] i = 7 -> map_roundabout(segment)
      [] i = 8 -> map_maxspeed(segment)
      [] i = 9 -> map_motor_vehicle_access(segment)
      [] i = 10 -> map_vehicle_restrictions(segment)
      [] i = 11 -> map_hazmat(segment)
      [] i = 12 -> map_overtaking_restrictions(segment)
      [] i = 13 -> map_lanes(segment)
      [] i = 14 -> map_surface(segment)
      [] i = 15 -> map_width(segment)
      [] i = 16 -> map_priority_road(segment)
      [] i = 17 -> map_bicycle_designated(segment)
      [] i = 18 -> map_low_emission_zone(segment)
      [] i = 19 -> map_name(segment)
      [] i = 20 -> map_bridge_tunnel_names(segment)
      [] i = 21 -> map_lit(segment)
      [] i = 22 -> map_layer(segment)

\* the loop body from its i-th mapper on
RECURSIVE RunMappers(_, _, _, _)
RunMappers(i, segment, bridges, street_names) ==
    IF i > 22 THEN segment
    ELSE Bind(ApplyMapper(i, segment, bridges, street_names),
              LAMBDA s : RunMappers(i + 1, s, bridges, street_names))

TagSegment(segment, bridges, street_names) ==
    RunMappers(1, segment, bridges, street_names)

tag_isolated_tracks(segs) == [i \in 1..Len(segs) |-> TagIsolatedTrack(segs[i])]

tag_network(segs) ==
    Bind(detect_bridges(segs), LAMBDA bridges :
    Bind(build_street_names(segs), LAMBDA street_names :
    Bind([i \in 1..Len(segs) |-> TagSegment(segs[i], bridges, street_names)],
         tag_isolated_tracks)))

-----------------------------------------------------------------------------
(* tag_mapper/nodes.rs: generate_nodes_for_segment.  Each feature class
   yields the tags of its node, or None when the segment has no such node. *)

CrossingTags(segment) ==
    LET passage_type == SegI64(segment, "Passa_85")
    IN  IF IsNone(passage_type) THEN None
        ELSE CASE Unwrap(passage_type) \in {3, 5} -> Some(("highway" :> "crossing"))
               [] Unwrap(passage_type) = 4 ->
                    Some(("highway" :> "crossing")
                         @@ ("crossing" :> "traffic_signals"))
               [] OTHER -> None

RailwayCrossingTags(segment) ==
    LET skydd == SegI64(segment, "Vagsk_100")
        net_type == UnwrapOr(SegI64(segment, "Vagtr_474"), 0)
        base == ("railway" :> (IF net_type = 1 THEN "level_crossing"
                               ELSE "crossing"))
    IN  IF IsNone(skydd) THEN None
        ELSE Some(CASE Unwrap(skydd) = 1 -> Insert(base, "crossing:barrier", "full")
                    [] Unwrap(skydd) = 2 -> Insert(base, "crossing:barrier", "half")
                    [] Unwrap(skydd) = 3 ->
                         Insert(Insert(base, "crossing:bell", "yes"),
                                "crossing:light", "yes")
                    [] Unwrap(skydd) = 4 -> Insert(base, "crossing:light", "yes")
                    [] Unwrap(skydd) = 5 -> Insert(base, "crossing:bell", "yes")
                    [] Unwrap(skydd) = 6 -> Insert(base, "crossing:saltire", "yes")
                    [] Unwrap(skydd) = 7 -> Insert(base, "crossing", "uncontrolled")
                    [] OTHER -> base)

CalmingTypes ==
    (1 :> "choker") @@ (2 :> "hump") @@ (3 :> "chicane") @@ (4 :> "island")
    @@ (5 :> "dip") @@ (6 :> "cushion") @@ (7 :> "table") @@ (8 :> "table")
    @@ (9 :> "yes")

TrafficCalmingTags(segment) ==
    LET farthinder_typ == SegI64(segment, "TypAv_82")
    IN  IF IsSome(farthinder_typ) /\ Unwrap(farthinder_typ) \in DOMAIN CalmingTypes
        THEN Some(("traffic_calming" :> CalmingTypes[Unwrap(farthinder_typ)]))
        ELSE None

BarrierTypes ==
    (1 :> "bollard") @@ (2 :> "swing_gate") @@ (3 :> "cycle_barrier")
    @@ (4 :> "lift_gate") @@ (5 :> "jersey_barrier") @@ (6 :> "bus_trap")
    @@ (99 :> "yes")

BarrierTags(segment) ==
    LET hinder_typ == SegI64(segment, "Hinde_72")
        pass_width == SegF64(segment, "Passe_73")
    IN  IF IsSome(hinder_typ) /\ Unwrap(hinder_typ) \in DOMAIN BarrierTypes
        THEN LET tags == ("barrier" :> BarrierTypes[Unwrap(hinder_typ)])
             IN  IF IsSome(pass_width) /\ Unwrap(pass_width) > 0
                 THEN Some(Insert(tags, "maxwidth:physical",
                                  FormatOneDecimal(Unwrap(pass_width))))
                 ELSE Some(tags)
        ELSE None

\* properties.get(a).or_else(|| properties.get(b)).and_then(as_i64) > 0
TruthyEither(segment, a, b) ==
    IF Has(segment.properties, a) THEN Truthy(segment, a) ELSE Truthy(segment, b)

SpeedCameraTags(segment) ==
    LET f_atk == TruthyEither(segment, "F_ATK_Matplats", "F_ATK_Matplats_117")
        b_atk == TruthyEither(segment, "B_ATK_Matplats", "B_ATK_Matplats_117")
        speed == SegI64(segment, IF f_atk THEN "F_Hogst_225" ELSE "B_Hogst_225")
        tags == ("highway" :> "speed_camera")
    IN  IF ~(f_atk \/ b_atk) THEN None
        ELSE IF IsSome(speed) /\ Unwrap(speed) > 0 /\ Unwrap(speed) <= 120
             THEN Some(Insert(tags, "maxspeed", IntToString(Unwrap(speed))))
             ELSE Some(tags)

\* one optional count of a rest area
WithCapacity(tags, segment, prop, key) ==
    LET cap == SegI64(segment, prop)
    IN  IF IsSome(cap) /\ Unwrap(cap) > 0
        THEN Insert(tags, key, IntToString(Unwrap(cap)))
        ELSE tags

RestAreaTags(segment) ==
    LET name_str == IF Has(segment.properties, "Rastp_118")
                    THEN Trim(as_string(segment.properties["Rastp_118"])) ELSE ""
        t1 == ("highway" :> "rest_area")
        t2 == IF name_str # "" /\ name_str # "NA" THEN Insert(t1, "name", name_str)
              ELSE t1
        t3 == WithCapacity(t2, segment, "Antal_119", "capacity")
    IN  IF Truthy(segment, "Rastplats")
        THEN Some(WithCapacity(t3, segment, "Antal_122", "capacity:hgv"))
        ELSE None

ParkingTags(segment) ==
    LET l_rastficka == Truthy(segment, "L_Rastficka_2")
        r_rastficka == Truthy(segment, "R_Rastficka_2")
        tags == ("amenity" :> "parking")
    IN  IF ~(l_rastficka \/ r_rastficka) THEN None
        ELSE IF l_rastficka /\ ~r_rastficka
             THEN Some(Insert(tags, "parking:lane:left", "yes"))
        ELSE IF r_rastficka /\ ~l_rastficka
             THEN Some(Insert(tags, "parking:lane:right", "yes"))
        ELSE Some(tags)

\* the tag maps of the segment's nodes, in the order the classes are tried
FeatureTagList(segment) ==
    Flatten(<<CrossingTags(segment), RailwayCrossingTags(segment),
              TrafficCalmingTags(segment), BarrierTags(segment),
              SpeedCameraTags(segment), RestAreaTags(segment),
              ParkingTags(segment)>>)

\* a variant that gives every node of the segment the same ID
generate_nodes_same_id(segment, next_id) ==
    LET tag_list == IF Len(segment.geometry) = 0 THEN <<>>
                    ELSE FeatureTagList(segment)
    IN  [nodes |-> [i \in 1..Len(tag_list) |->
                      [id |-> next_id, lat |-> segment.geometry[1].y,
                       lon |-> segment.geometry[1].x, tags |-> tag_list[i]]],
         next_id |-> next_id + Len(tag_list)]

\* returns the nodes and the next free ID
generate_nodes_for_segment(segment, next_id) ==
    LET tag_list == IF Len(segment.geometry) = 0 THEN <<>>
                    ELSE FeatureTagList(segment)
    IN  [nodes |-> [i \in 1..Len(tag_list) |->
                      [id |-> next_id + i - 1, lat |-> segment.geometry[1].y,
                       lon |-> segment.geometry[1].x, tags |-> tag_list[i]]],
         next_id |-> next_id + Len(tag_list)]

\* process_nvdb_wkb: the nodes of all segments, IDs running on from one
\* segment to the next
RECURSIVE GenerateNodes(_, _)
GenerateNodes(segs, next_id) ==
    IF Len(segs) = 0 THEN <<>>
    ELSE LET r == generate_nodes_for_segment(segs[1], next_id)
         IN  r.nodes \o GenerateNodes(Tail(segs), r.next_id)

-----------------------------------------------------------------------------
(* geometry/mod.rs.  Coordinates are integers in units of 1e-7 degree, near
   latitude 0, where the latitude reprojection factor is 1. *)

\* compute_bearing in degrees, for the compass directions and the zero
\* vector (atan2(0, 0) = 0)
compute_bearing(from, to) ==
    LET dx == to.x - from.x
        dy == to.y - from.y
    IN  CASE dx = 0 /\ dy >= 0 -> 0
          [] dx > 0 /\ dy = 0 -> 90
          [] dx = 0 /\ dy < 0 -> 180
          [] dx < 0 /\ dy = 0 -> 270

\* geometry.get(len.saturating_sub(2)).unwrap_or(start_coord())
SecondLast(seg) ==
    IF Len(seg.geometry) >= 2 THEN seg.geometry[Len(seg.geometry) - 1]
    ELSE seg.geometry[1]

\* geometry.get(1).unwrap_or(end_coord())
Second(seg) ==
    IF Len(seg.geometry) >= 2 THEN seg.geometry[2] ELSE end_coord(seg)

\* the two bearings compute_junction_angle compares
JunctionBearings(seg1, seg2) ==
    IF seg1.end_node = seg2.start_node
    THEN <<compute_bearing(SecondLast(seg1), end_coord(seg1)),
           compute_bearing(start_coord(seg2), Second(seg2))>>
    ELSE IF seg1.start_node = seg2.end_node
    THEN <<compute_bearing(Second(seg1), start_coord(seg1)),
           compute_bearing(end_coord(seg2), SecondLast(seg2))>>
    ELSE IF seg1.start_node = seg2.start_node
    THEN <<compute_bearing(Second(seg1), start_coord(seg1)),
           compute_bearing(start_coord(seg2), Second(seg2))>>
    ELSE <<compute_bearing(SecondLast(seg1), end_coord(seg1)),
           compute_bearing(end_coord(seg2), SecondLast(seg2))>>

\* a variant that reports every junction as straight
compute_junction_angle_straight(seg1, seg2) == 0

\* delta = bearing2 - bearing1, brought into one turn
JunctionDelta(bearing1, bearing2) ==
    LET delta == (bearing2 - bearing1 + 360) % 360
    IN  IF delta > 180 THEN delta - 360 ELSE delta

compute_junction_angle(seg1, seg2) ==
    LET b == JunctionBearings(seg1, seg2)
    IN  JunctionDelta(b[1], b[2])

\* point_to_line_distance squared, in units squared, as a fraction
\* <<numerator, denominator>>
point_to_line_distance(s1, s2, p3) ==
    LET a == p3.x - s1.x
        b == p3.y - s1.y
        c == s2.x - s1.x
        d == s2.y - s1.y
        dot == a * c + b * d
        len_sq == c * c + d * d
        cross == a * d - b * c
    IN  IF len_sq = 0 THEN <<a * a + b * b, 1>>
        ELSE IF dot < 0 THEN <<(a * a + b * b) * len_sq, len_sq>>
        ELSE IF dot > len_sq
             THEN <<((p3.x - s2.x) * (p3.x - s2.x)
                     + (p3.y - s2.y) * (p3.y - s2.y)) * len_sq, len_sq>>
        ELSE <<cross * cross, len_sq>>

\* twice the square of epsilon = SIMPLIFY_FACTOR = 0.2 m in units of
\* 1e-7 degree on a sphere of radius 6371000 m (one unit is 0.0111195 m)
TwiceEpsilonSq == 647

\* the index of the first interior point at the greatest distance from the
\* chord, with that distance; <<0, <<0, 1>>>> when every distance is 0
RECURSIVE MaxDistance(_, _, _)
MaxDistance(coords, i, best) ==
    IF i > Len(coords) - 1 THEN best
    ELSE LET dist == point_to_line_distance(coords[1], coords[Len(coords)],
                                            coords[i])
         IN  IF dist[1] > best[2][1]
             THEN MaxDistance(coords, i + 1, <<i, dist>>)
             ELSE MaxDistance(coords, i + 1, best)

\* a variant that keeps only the two end points
simplify_polygon_ends(coords) ==
    IF Len(coords) <= 2 THEN coords ELSE <<coords[1], coords[Len(coords)]>>

\* a variant that keeps the split point twice
RECURSIVE simplify_polygon_no_pop(_, _)
simplify_polygon_no_pop(coords, twice_epsilon_sq) ==
    IF Len(coords) <= 2 THEN coords
    ELSE LET m == MaxDistance(coords, 2, <<0, <<0, 1>>>>)
         IN  IF 2 * m[2][1] >= twice_epsilon_sq * m[2][2]
             THEN simplify_polygon_no_pop(SubSeq(coords, 1, m[1]),
                                          twice_epsilon_sq)
                  \o simplify_polygon_no_pop(SubSeq(coords, m[1], Len(coords)),
                                             twice_epsilon_sq)
             ELSE <<coords[1], coords[Len(coords)]>>

\* Douglas-Peucker; epsilon is given as twice its square
RECURSIVE simplify_polygon_eps(_, _)
simplify_polygon_eps(coords, twice_epsilon_sq) ==
    IF Len(coords) <= 2 THEN coords
    ELSE LET m == MaxDistance(coords, 2, <<0, <<0, 1>>>>)
         IN  IF 2 * m[2][1] >= twice_epsilon_sq * m[2][2]
             THEN LET left == simplify_polygon_eps(SubSeq(coords, 1, m[1]),
                                                   twice_epsilon_sq)
                      right == simplify_polygon_eps(
                                   SubSeq(coords, m[1], Len(coords)),
                                   twice_epsilon_sq)
                  IN  SubSeq(left, 1, Len(left) - 1) \o right
             ELSE <<coords[1], coords[Len(coords)]>>

\* Douglas-Peucker with epsilon = SIMPLIFY_FACTOR
simplify_polygon(coords) == simplify_polygon_eps(coords, TwiceEpsilonSq)

-----------------------------------------------------------------------------
(* grouping/mod.rs.  Segment indices are 1-based here. *)

group_by_route(segment) ==
    IF Has(segment.properties, "ROUTE_ID")
    THEN as_string(segment.properties["ROUTE_ID"]) ELSE ""

group_by_refname(segment) ==
    LET vagnr == "Driftbidrag statligt/Vägnr"
        ref == IF Has(segment.tags, "ref") THEN segment.tags["ref"]
               ELSE IF Has(segment.properties, vagnr)
                    THEN as_string(segment.properties[vagnr]) ELSE ""
        name == UnwrapOr(Get(segment.tags, "name"), "")
        highway == UnwrapOr(Get(segment.tags, "highway"), "")
    IN  ref \o name \o highway

GroupId(segment, method) ==
    CASE method = "Route" -> group_by_route(segment)
      [] method \in {"Refname", "Recursive", "Linear"} -> group_by_refname(segment)
      [] OTHER -> ""

\* group id -> the indices of its segments, in input order
group_segments(segs, method) ==
    [g \in {GroupId(segs[i], method) : i \in 1..Len(segs)} |->
        SetToSortedSeq({i \in 1..Len(segs) : GroupId(segs[i], method) = g})]

-----------------------------------------------------------------------------
(* topology/mod.rs *)

ANGLE_MARGIN == 45

\* coordinate hash -> the segments incident there, one entry per segment end
build_junctions(segs) ==
    [h \in {segs[i].start_node : i \in 1..Len(segs)}
           \cup {segs[i].end_node : i \in 1..Len(segs)} |->
        Flatten([i \in 1..Len(segs) |->
            (IF segs[i].start_node = h THEN <<i>> ELSE <<>>)
            \o (IF segs[i].end_node = h THEN <<i>> ELSE <<>>)])]

\* the by_start / by_end lookup of one group
BuildLookup(segs, indices, Node(_)) ==
    [h \in {Node(segs[indices[k]]) : k \in 1..Len(indices)} |->
        SelectSeq(indices, LAMBDA i : Node(segs[i]) = h)]

remove_from_lookup(lookup, node, i) ==
    IF Has(lookup, node)
    THEN LET vec == SelectSeq(lookup[node], LAMBDA x : x # i)
         IN  IF Len(vec) = 0 THEN Remove(lookup, node)
             ELSE [lookup EXCEPT ![node] = vec]
    ELSE lookup

\* a segment leaves `remaining` and both lookups
TakeSegment(segs, st, i) ==
    [st EXCEPT
        !.remaining = @ \ {i},
        !.by_start = remove_from_lookup(@, segs[i].start_node, i),
        !.by_end = remove_from_lookup(@, segs[i].end_node, i)]

\* "Build way forward": append the first candidate within the angle margin
RECURSIVE ExtendForward(_, _)
ExtendForward(segs, st) ==
    LET candidates == UnwrapOr(Get(st.by_start, st.last_node), <<>>)
        valid == SelectSeq(candidates, LAMBDA c :
                    /\ c \in st.remaining
                    /\ Abs(compute_junction_angle(segs[Last(st.way)], segs[c]))
                           < ANGLE_MARGIN)
    IN  IF Len(valid) = 0 THEN st
        ELSE ExtendForward(segs,
                [TakeSegment(segs, st, valid[1]) EXCEPT
                    !.last_node = segs[valid[1]].end_node,
                    !.way = Append(@, valid[1])])

\* a variant of the backward extension that accepts any angle
RECURSIVE ExtendBackwardAnyAngle(_, _)
ExtendBackwardAnyAngle(segs, st) ==
    LET candidates == UnwrapOr(Get(st.by_end, st.first_node), <<>>)
        valid == SelectSeq(candidates, LAMBDA c : c \in st.remaining)
    IN  IF Len(valid) = 0 THEN st
        ELSE ExtendBackwardAnyAngle(segs,
                [TakeSegment(segs, st, valid[1]) EXCEPT
                    !.first_node = segs[valid[1]].start_node,
                    !.way = <<valid[1]>> \o @])

\* "Build way backward": prepend the first candidate within the angle margin
RECURSIVE ExtendBackward(_, _)
ExtendBackward(segs, st) ==
    LET candidates == UnwrapOr(Get(st.by_end, st.first_node), <<>>)
        valid == SelectSeq(candidates, LAMBDA c :
                    /\ c \in st.remaining
                    /\ Abs(compute_junction_angle(segs[c], segs[st.way[1]]))
                           < ANGLE_MARGIN)
    IN  IF Len(valid) = 0 THEN st
        ELSE ExtendBackward(segs,
                [TakeSegment(segs, st, valid[1]) EXCEPT
                    !.first_node = segs[valid[1]].start_node,
                    !.way = <<valid[1]>> \o @])

\* a variant that leaves the chain whole
SplitAtJunctionsNever(segs, junctions, way, i, current_chunk, chains) ==
    <<way>>

\* split a chain after every segment that ends where 3 or more junction
\* entries meet
RECURSIVE SplitAtJunctions(_, _, _, _, _, _)
SplitAtJunctions(segs, junctions, way, i, current_chunk, chains) ==
    IF i > Len(way)
    THEN IF Len(current_chunk) > 0 THEN Append(chains, current_chunk) ELSE chains
    ELSE LET chunk == Append(current_chunk, way[i])
             h == segs[way[i]].end_node
         IN  IF i < Len(way) /\ Has(junctions, h) /\ Len(junctions[h]) >= 3
             THEN SplitAtJunctions(segs, junctions, way, i + 1, <<>>,
                                   Append(chains, chunk))
             ELSE SplitAtJunctions(segs, junctions, way, i + 1, chunk, chains)

NewWay(segment_indices, tags) ==
    [segment_indices |-> segment_indices, tags |-> tags]

\* a variant that never splits: the chain is one way with its first tags
SplitByTagsNever(segs, chain, i, current_way, current_tags, acc) ==
    Append(acc, NewWay(chain, segs[chain[1]].tags))

\* a variant that pushes the first way of a chain only
SplitByTagsFirstOnly(segs, chain, i, current_way, current_tags, acc) ==
    Append(acc, NewWay(<<chain[1]>>, segs[chain[1]].tags))

\* split a chain wherever the next segment's tag map differs
RECURSIVE SplitByTags(_, _, _, _, _, _)
SplitByTags(segs, chain, i, current_way, current_tags, acc) ==
    IF i > Len(chain) THEN Append(acc, NewWay(current_way, current_tags))
    ELSE IF segs[chain[i]].tags = current_tags
         THEN SplitByTags(segs, chain, i + 1, Append(current_way, chain[i]),
                          current_tags, acc)
         ELSE SplitByTags(segs, chain, i + 1, <<chain[i]>>, segs[chain[i]].tags,
                          Append(acc, NewWay(current_way, current_tags)))

\* the ways of the junction-split chains, appended to `acc`
RECURSIVE SplitChains(_, _, _)
SplitChains(segs, chains, acc) ==
    IF Len(chains) = 0 THEN acc
    ELSE SplitChains(segs, Tail(chains),
            SplitByTags(segs, chains[1], 2, <<chains[1][1]>>,
                        segs[chains[1][1]].tags, acc))

\* the while loop over one group's remaining segments
RECURSIVE ChainGroup(_, _, _, _)
ChainGroup(segs, junctions, st, acc) ==
    IF st.remaining = {} THEN acc
    ELSE LET start_idx == CHOOSE i \in st.remaining :
                              \A j \in st.remaining : i <= j
             st0 == [TakeSegment(segs, st, start_idx) EXCEPT
                        !.way = <<start_idx>>,
                        !.first_node = segs[start_idx].start_node,
                        !.last_node = segs[start_idx].end_node]
             st1 == ExtendBackward(segs, ExtendForward(segs, st0))
             chains == SplitAtJunctions(segs, junctions, st1.way, 1, <<>>, <<>>)
         IN  ChainGroup(segs, junctions, st1, SplitChains(segs, chains, acc))

\* `order` is the order in which the hash map yields the groups
RECURSIVE simplify_linear(_, _, _, _, _)
simplify_linear(segs, groups, junctions, order, acc) ==
    IF Len(order) = 0 THEN acc
    ELSE LET indices == groups[order[1]]
             st == [way |-> <<>>, first_node |-> 0, last_node |-> 0,
                    remaining |-> Range(indices),
                    by_start |-> BuildLookup(segs, indices,
                                             LAMBDA seg : seg.start_node),
                    by_end |-> BuildLookup(segs, indices,
                                           LAMBDA seg : seg.end_node)]
         IN  simplify_linear(segs, groups, junctions, Tail(order),
                             ChainGroup(segs, junctions, st, acc))

\* every segment is a way of its own, group by group
simplify_recursive(segs, groups, order) ==
    LET indices == Flatten([k \in 1..Len(order) |-> groups[order[k]]])
    IN  [k \in 1..Len(indices) |->
            NewWay(<<indices[k]>>, segs[indices[k]].tags)]

\* simplify_network step 1: Douglas-Peucker on every segment
SimplifyGeometry(segment) ==
    LET simplified == simplify_polygon(segment.geometry)
    IN  IF Len(simplified) >= 2
        THEN [segment EXCEPT !.geometry = simplified,
                             !.start_node = hash_coord(simplified[1]),
                             !.end_node = hash_coord(simplified[Len(simplified)])]
        ELSE segment

SimplifyGeometries(segs) == [i \in 1..Len(segs) |-> SimplifyGeometry(segs[i])]

\* simplify_network steps 2-4 on the simplified segments
MergeSegments(segs, method, order) ==
    LET groups == group_segments(segs, method)
        junctions == build_junctions(segs)
    IN  CASE method = "Recursive" -> simplify_recursive(segs, groups, order)
          [] method \in {"Route", "Refname", "Linear"} ->
                simplify_linear(segs, groups, junctions, order, <<>>)
          [] OTHER -> [i \in 1..Len(segs) |-> NewWay(<<i>>, segs[i].tags)]

-----------------------------------------------------------------------------
(* lib.rs: PreprocessedColumns::build_properties.  A cell is one column's
   value in one row: its column type, whether it is NA, and the raw value
   (reals in tenths). *)

StrCell(v) == [kind |-> "string", na |-> FALSE, v |-> v]
IntCell(v) == [kind |-> "int", na |-> FALSE, v |-> v]
RealCell(v) == [kind |-> "real", na |-> FALSE, v |-> v]
LglCell(v) == [kind |-> "logical", na |-> FALSE, v |-> v]
NaCell(kind) == [kind |-> kind, na |-> TRUE, v |-> 0]

is_boolean_field(name) ==
    name \in {"F_ForbudTrafik", "B_ForbudTrafik",
              "F_ForbjudenFardriktning", "B_ForbjudenFardriktning",
              "F_Cirkulationsplats", "B_Cirkulationsplats",
              "TattbebyggtOmrade", "Farjeled", "Motorvag", "Motortrafikled",
              "GCM_belyst", "GCM_passage",
              "F_Omkorningsforbud", "B_Omkorningsforbud",
              "L_Gagata", "R_Gagata", "L_Gangfartsomrade", "R_Gangfartsomrade",
              "Miljozon", "C_Rekbilvagcykeltrafik", "Rastplats",
              "L_Rastficka_2", "R_Rastficka_2",
              "F_ATK_Matplats", "B_ATK_Matplats"}

\* a variant that normalises -1 whatever the column
NormalizeIntAlways(name, v) == IF v = -1 THEN 1 ELSE v

\* the -1 => 1 normalisation of ESRI booleans
NormalizeInt(name, v) == IF v = -1 /\ is_boolean_field(name) THEN 1 ELSE v

\* the PropertyValue one cell becomes, None when the cell is skipped
BuildCell(name, cell) ==
    IF cell.na THEN None
    ELSE CASE cell.kind = "string" ->
                IF cell.v = "" THEN None ELSE Some(PStr(cell.v))
           [] cell.kind = "int" -> Some(PInt(NormalizeInt(name, cell.v)))
           [] cell.kind = "real" ->
                IF cell.v % 10 = 0
                THEN Some(PInt(NormalizeInt(name, TruncTenths(cell.v))))
                ELSE Some(PFloat(cell.v))
           [] OTHER -> Some(PBool(cell.v # 0))

build_properties(row) ==
    [name \in {n \in DOMAIN row : IsSome(BuildCell(n, row[n]))} |->
        Unwrap(BuildCell(name, row[name]))]

-----------------------------------------------------------------------------
(* Specifications *)

\* process_nvdb_wkb: one parsed row becomes a segment
BuildSegment(geometry, row) ==
    [NewSegment(geometry) EXCEPT !.properties = build_properties(row)]

-----------------------------------------------------------------------------
(* lib.rs: write_pbf_three_pass.  An emitted node carries the pass that wrote
   it and the coordinate it was written for. *)

NodeElement(pass, id, coord, tags) ==
    [kind |-> "node", pass |-> pass, id |-> id, coord |-> coord, tags |-> tags]

WayElement(id, refs, tags) ==
    [kind |-> "way", id |-> id, refs |-> refs, tags |-> tags]

\* Pass 0: every feature node, and node_id moved past the feature IDs
RECURSIVE WriteFeatures(_, _)
WriteFeatures(feature_nodes, st) ==
    IF Len(feature_nodes) = 0 THEN st
    ELSE LET node == feature_nodes[1]
         IN  WriteFeatures(Tail(feature_nodes),
                [st EXCEPT
                    !.out = Append(@, NodeElement(0, node.id,
                                        Coord(node.lon, node.lat), node.tags)),
                    !.node_id = IF node.id >= @ THEN node.id + 1 ELSE @])

\* a variant that writes a junction node even when the hash has an ID
JunctionNodeAlways(st, hash, coord) ==
    [st EXCEPT !.junction_ids = Insert(@, hash, st.node_id),
               !.node_id = @ + 1,
               !.out = Append(@, NodeElement(1, st.node_id, coord, EmptyMap))]

\* a variant that assigns the junction ID without writing the node
JunctionNodeUnwritten(st, hash, coord) ==
    IF Has(st.junction_ids, hash) THEN st
    ELSE [st EXCEPT !.junction_ids = Insert(@, hash, st.node_id),
                    !.node_id = @ + 1]

\* Pass 1: a junction node for `hash` unless it already has an ID
JunctionNode(st, hash, coord) ==
    IF Has(st.junction_ids, hash) THEN st
    ELSE [st EXCEPT !.junction_ids = Insert(@, hash, st.node_id),
                    !.node_id = @ + 1,
                    !.out = Append(@, NodeElement(1, st.node_id, coord, EmptyMap))]

\* Pass 1: the junctions between consecutive segments of a way
RECURSIVE InnerJunctions(_, _, _, _)
InnerJunctions(segs, indices, k, st) ==
    IF k >= Len(indices) THEN st
    ELSE LET seg1 == segs[indices[k]]
         IN  InnerJunctions(segs, indices, k + 1,
                            JunctionNode(st, seg1.end_node, end_coord(seg1)))

\* Pass 1, for one way
WayJunctions(segs, way, st) ==
    IF Len(way.segment_indices) = 0 THEN st
    ELSE LET first_seg == segs[way.segment_indices[1]]
             last_seg == segs[Last(way.segment_indices)]
             st1 == JunctionNode(st, first_seg.start_node, start_coord(first_seg))
             st2 == JunctionNode(st1, last_seg.end_node, end_coord(last_seg))
         IN  InnerJunctions(segs, way.segment_indices, 1, st2)

RECURSIVE WriteJunctions(_, _, _)
WriteJunctions(segs, ws, st) ==
    IF Len(ws) = 0 THEN st
    ELSE WriteJunctions(segs, Tail(ws), WayJunctions(segs, ws[1], st))

\* Pass 2: the interior coordinates of one segment; `ids` collects its
\* internal_node_ids
RECURSIVE InteriorNodes(_, _, _, _)
InteriorNodes(coords, k, ids, st) ==
    IF k > Len(coords) THEN [st EXCEPT !.ids = ids]
    ELSE LET h == hash_coord(coords[k])
         IN  IF Has(st.junction_ids, h)
             THEN InteriorNodes(coords, k + 1,
                                Append(ids, st.junction_ids[h]), st)
             ELSE InteriorNodes(coords, k + 1, Append(ids, st.node_id),
                     [st EXCEPT
                         !.node_id = @ + 1,
                         !.out = Append(@, NodeElement(2, st.node_id, coords[k],
                                                       EmptyMap))])

\* Pass 2: the segments of all ways, in way order; st.segs is updated
RECURSIVE WriteInteriors(_, _)
WriteInteriors(seg_order, st) ==
    IF Len(seg_order) = 0 THEN st
    ELSE LET i == seg_order[1]
             r == InteriorNodes(internal_coords(st.segs[i]), 1, <<>>, st)
         IN  WriteInteriors(Tail(seg_order),
                [r EXCEPT !.segs = [@ EXCEPT ![i].internal_node_ids = r.ids]])

\* Vec::dedup: consecutive equal elements collapse to the first
RECURSIVE Dedup(_)
Dedup(ids) ==
    IF Len(ids) <= 1 THEN ids
    ELSE IF ids[1] = ids[2] THEN Dedup(Tail(ids))
         ELSE <<ids[1]>> \o Dedup(Tail(ids))

\* Pass 3: junction_ids.get(hash), or a fresh ID that no node was written
\* for; the ID is appended to st.refs
JunctionRef(st, hash) ==
    IF Has(st.junction_ids, hash)
    THEN [st EXCEPT !.refs = Append(@, st.junction_ids[hash])]
    ELSE [st EXCEPT !.refs = Append(@, st.node_id), !.node_id = @ + 1]

\* Pass 3: interior IDs and end junction of each segment of a way
RECURSIVE WayRefs(_, _, _, _)
WayRefs(segs, indices, k, st) ==
    IF k > Len(indices) THEN st
    ELSE LET seg == segs[indices[k]]
         IN  WayRefs(segs, indices, k + 1,
                JunctionRef([st EXCEPT !.refs = @ \o seg.internal_node_ids],
                            seg.end_node))

\* a variant of the way writer that leaves consecutive duplicates in
WriteWayNoDedup(segs, way, st) ==
    LET st0 == [st EXCEPT !.refs = <<>>]
        st1 == IF Len(way.segment_indices) = 0 THEN st0
               ELSE WayRefs(segs, way.segment_indices, 1,
                        JunctionRef(st0, segs[way.segment_indices[1]].start_node))
    IN  [st1 EXCEPT !.out = Append(@, WayElement(st.way_id, st1.refs, way.tags)),
                    !.way_id = @ + 1]

\* Pass 3, for one way
WriteWay(segs, way, st) ==
    LET st0 == [st EXCEPT !.refs = <<>>]
        st1 == IF Len(way.segment_indices) = 0 THEN st0
               ELSE WayRefs(segs, way.segment_indices, 1,
                        JunctionRef(st0, segs[way.segment_indices[1]].start_node))
    IN  [st1 EXCEPT
            !.out = Append(@, WayElement(st.way_id, Dedup(st1.refs), way.tags)),
            !.way_id = @ + 1]

RECURSIVE WriteWays(_, _, _)
WriteWays(segs, ws, st) ==
    IF Len(ws) = 0 THEN st
    ELSE WriteWays(segs, Tail(ws), WriteWay(segs, ws[1], st))

-----------------------------------------------------------------------------
(* Tagging specification: tag_network stepped through its mappers for a
   network of one row drawn from TagRows, alone or next to a second row. *)

MaxProps == 3

Step == 40

TagGeometry == <<Coord(0, 0), Coord(Step, 0), Coord(Step, Step)>>
MateGeometry == <<Coord(Step, Step), Coord(2 * Step, Step)>>

\* the cells a row is assembled from: <<column name, cell>>
TagCells ==
    { <<"Vagtr_474", IntCell(2)>>,
      <<"Farjeled", LglCell(1)>>,
      <<"Farjeled", IntCell(1)>>,
      <<"Farjeled", RealCell(-10)>>,
      <<"F_ForbjudenFardriktning", IntCell(-1)>>,
      <<"B_ForbjudenFardriktning", IntCell(1)>>,
      <<"Korfa_524", IntCell(1)>>,
      <<"F_Hogst_225", IntCell(30)>>,
      <<"B_Hogst_225", RealCell(500)>>,
      <<"F_ForbudTrafik", IntCell(-1)>>,
      <<"Kateg_380", IntCell(1)>>,
      <<"Huvnr_556_1", StrCell("4")>>,
      <<"Klass_181", NaCell("int")>>,
      <<"Namn_130", StrCell("Storgatan")>>,
      <<"Ident_191", StrCell("B1")>>,
      <<"Konst_190", IntCell(1)>> }

RowOf(cells) ==
    [name \in {c[1] : c \in cells} |-> (CHOOSE c \in cells : c[1] = name)[2]]

TagRows ==
    { RowOf(cells) : cells \in
        { S \in SUBSET TagCells :
            /\ Cardinality(S) <= MaxProps
            /\ \A c, d \in S : c[1] = d[1] => c = d } }

\* the second row of the network, where there is one
TagMates ==
    { <<>>,
      <<BuildSegment(MateGeometry,
            ("Namn_130" :> StrCell("Storgatan")) @@ ("Klass_181" :> IntCell(5)))>>,
      <<BuildSegment(MateGeometry,
            ("Ident_191" :> StrCell("B1")) @@ ("Konst_190" :> IntCell(2))
            @@ ("Vagtr_474" :> IntCell(1)))>> }

TagIdle == <<nodes, ways, out, node_id, way_id, junction_ids, fin, fout>>

TagInit ==
    /\ \E row \in TagRows, mate \in TagMates :
          input = <<BuildSegment(TagGeometry, row)>> \o mate
    /\ segments = input
    /\ cfg = [bridges |-> EmptyMap, street_names |-> {}]
    /\ pc = "tag_network"
    /\ idx = 0
    /\ nodes = <<>> /\ ways = <<>> /\ out = <<>> /\ node_id = 0 /\ way_id = 0
    /\ junction_ids = EmptyMap /\ fin = <<>> /\ fout = <<>>

\* tag_network steps 1-2b: bridges and street names of the whole network
TagDetectBridges ==
    /\ pc = "tag_network"
    /\ cfg' = [bridges |-> detect_bridges(segments),
               street_names |-> build_street_names(segments)]
    /\ idx' = 1
    /\ pc' = "map_bridge_tunnel"
    /\ UNCHANGED <<input, segments>>
    /\ UNCHANGED TagIdle

\* one mapper of the main loop applied to the current segment
MapStep(step, next, Op(_)) ==
    /\ pc = step
    /\ segments' = [segments EXCEPT ![idx] = Op(@)]
    /\ pc' = next
    /\ UNCHANGED <<input, cfg, idx>>
    /\ UNCHANGED TagIdle

TagBridgeTunnel ==
    MapStep("map_bridge_tunnel", "map_oneway",
            LAMBDA seg : map_bridge_tunnel(seg, cfg.bridges))
TagOneway == MapStep("map_oneway", "map_highway", map_oneway)
TagHighway ==
    MapStep("map_highway", "map_motorway_override",
            LAMBDA seg : map_highway(seg, cfg.street_names))
TagMotorwayOverride ==
    MapStep("map_motorway_override", "map_highway_links", map_motorway_override)
TagHighwayLinks == MapStep("map_highway_links", "map_ref", map_highway_links)
TagRef == MapStep("map_ref", "map_roundabout", map_ref)
TagRoundabout == MapStep("map_roundabout", "map_maxspeed", map_roundabout)
TagMaxspeed == MapStep("map_maxspeed", "map_motor_vehicle_access", map_maxspeed)
TagMotorVehicleAccess ==
    MapStep("map_motor_vehicle_access", "map_vehicle_restrictions",
            map_motor_vehicle_access)
TagVehicleRestrictions ==
    MapStep("map_vehicle_restrictions", "map_hazmat", map_vehicle_restrictions)
TagHazmat == MapStep("map_hazmat", "map_overtaking_restrictions", map_hazmat)
TagOvertaking ==
    MapStep("map_overtaking_restrictions", "map_lanes",
            map_overtaking_restrictions)
TagLanes == MapStep("map_lanes", "map_surface", map_lanes)
TagSurface == MapStep("map_surface", "map_width", map_surface)
TagWidth == MapStep("map_width", "map_priority_road", map_width)
TagPriorityRoad ==
    MapStep("map_priority_road", "map_bicycle_designated", map_priority_road)
TagBicycleDesignated ==
    MapStep("map_bicycle_designated", "map_low_emission_zone",
            map_bicycle_designated)
TagLowEmissionZone ==
    MapStep("map_low_emission_zone", "map_name", map_low_emission_zone)
TagName == MapStep("map_name", "map_bridge_tunnel_names", map_name)
TagBridgeTunnelNames ==
    MapStep("map_bridge_tunnel_names", "map_lit", map_bridge_tunnel_names)
TagLit == MapStep("map_lit", "map_layer", map_lit)

\* the last mapper of the loop body, then the next segment or the loop's end
TagLayer ==
    /\ pc = "map_layer"
    /\ segments' = [segments EXCEPT ![idx] = map_layer(@)]
    /\ IF idx < Len(segments)
       THEN idx' = idx + 1 /\ pc' = "map_bridge_tunnel"
       ELSE idx' = idx /\ pc' = "tag_isolated_tracks"
    /\ UNCHANGED <<input, cfg>>
    /\ UNCHANGED TagIdle

\* tag_network step 4: post-processing
TagPost ==
    /\ pc = "tag_isolated_tracks"
    /\ segments' = tag_isolated_tracks(segments)
    /\ pc' = "tagged"
    /\ UNCHANGED <<input, cfg, idx>>
    /\ UNCHANGED TagIdle

TagNext ==
    \/ TagDetectBridges \/ TagBridgeTunnel \/ TagOneway \/ TagHighway
    \/ TagMotorwayOverride \/ TagHighwayLinks \/ TagRef \/ TagRoundabout
    \/ TagMaxspeed \/ TagMotorVehicleAccess \/ TagVehicleRestrictions
    \/ TagHazmat \/ TagOvertaking \/ TagLanes \/ TagSurface \/ TagWidth
    \/ TagPriorityRoad \/ TagBicycleDesignated \/ TagLowEmissionZone
    \/ TagName \/ TagBridgeTunnelNames \/ TagLit \/ TagLayer \/ TagPost

TagSpec == TagInit /\ [][TagNext]_vars

\* the stepped run ends where the composed tag_network ends
TagStepsAgree == pc = "tagged" => segments = tag_network(input)

-----------------------------------------------------------------------------
(* tag_direction specification: the function applied once to arguments
   drawn from small sets. *)

DirTags == {EmptyMap, ("maxspeed" :> "70"), ("highway" :> "primary")}
DirProps == {None, Some(0), Some(1), Some(-1), Some(30), Some(50)}

DirIdle ==
    <<cfg, input, segments, nodes, ways, out, node_id, way_id, junction_ids, idx>>

DirInit ==
    /\ fin \in [tags : DirTags,
                oneway : {"None", "Forward", "Backward"},
                tag : {"maxspeed", "motor_vehicle"},
                value : {None, Some("no")},
                prop_forward : DirProps,
                prop_backward : DirProps]
    /\ fout = None
    /\ pc = "tag_direction"
    /\ cfg = <<>> /\ input = <<>> /\ segments = <<>> /\ nodes = <<>>
    /\ ways = <<>> /\ out = <<>> /\ node_id = 0 /\ way_id = 0
    /\ junction_ids = EmptyMap /\ idx = 0

DirCall ==
    /\ pc = "tag_direction"
    /\ fout' = Some(tag_direction(fin.tags, fin.oneway, fin.tag, fin.value,
                                  fin.prop_forward, fin.prop_backward))
    /\ pc' = "returned"
    /\ UNCHANGED fin
    /\ UNCHANGED DirIdle

DirNext == DirCall

DirSpec == DirInit /\ [][DirNext]_vars

-----------------------------------------------------------------------------
(* The pipeline of process_nvdb_wkb, pass by pass, for networks of up to
   MaxSegs rows drawn from a catalogue of rows on a small grid. *)

MaxSegs == 3

P(i, j) == Coord(i * Step, j * Step)

NoCells == <<>>

\* the rows a network is assembled from
Catalogue ==
    { \* a street running east, and its continuation
      BuildSegment(<<P(0, 0), P(1, 0)>>, NoCells),
      BuildSegment(<<P(1, 0), P(2, 0)>>, NoCells),
      \* the continuation with a speed limit
      BuildSegment(<<P(1, 0), P(2, 0)>>,
          ("F_Hogst_225" :> IntCell(50)) @@ ("B_Hogst_225" :> IntCell(50))),
      \* a side street with a signalled crossing and a hump
      BuildSegment(<<P(1, 0), P(1, 1)>>,
          ("Passa_85" :> IntCell(4)) @@ ("TypAv_82" :> IntCell(2))),
      \* a street with a corner, and a cycleway along it the other way
      BuildSegment(<<P(0, 0), P(1, 0), P(1, 1)>>, NoCells),
      BuildSegment(<<P(1, 1), P(1, 0), P(0, 0)>>, ("Vagtr_474" :> IntCell(2))),
      \* a straight street with a redundant middle point
      BuildSegment(<<P(0, 0), P(1, 0), P(2, 0)>>, NoCells),
      \* a row whose two points coincide
      BuildSegment(<<P(0, 0), P(0, 0)>>, NoCells),
      \* a street digitised against its one direction of travel
      BuildSegment(<<P(2, 0), P(1, 0)>>,
          ("F_ForbjudenFardriktning" :> IntCell(-1))),
      \* a closed loop
      BuildSegment(<<P(0, 0), P(1, 0), P(1, 1), P(0, 1), P(0, 0)>>, NoCells) }

Networks == UNION { [1..n -> Catalogue] : n \in 1..MaxSegs }

Methods == {"Recursive", "Route", "Refname", "Linear", "Segment"}

\* <<node_id_start, way_id_start>>
IdStarts == {<<1, 1>>, <<-1, 7>>}

Init ==
    /\ cfg \in { [method |-> m, node_id_start |-> s[1], way_id_start |-> s[2]] :
                    m \in Methods, s \in IdStarts }
    /\ input \in Networks
    /\ segments = input
    /\ pc = "tag_network"
    /\ nodes = <<>> /\ ways = <<>> /\ out = <<>>
    /\ node_id = cfg.node_id_start
    /\ way_id = cfg.way_id_start
    /\ junction_ids = EmptyMap
    /\ idx = 0 /\ fin = <<>> /\ fout = <<>>

Fixed == <<cfg, input, idx, fin, fout>>

\* tag_mapper::tag_network(&mut segments)
TagNetwork ==
    /\ pc = "tag_network"
    /\ segments' = tag_network(segments)
    /\ pc' = "generate_nodes"
    /\ UNCHANGED <<nodes, ways, out, node_id, way_id, junction_ids>>
    /\ UNCHANGED Fixed

\* the feature nodes of every segment, IDs from node_id_start
GenerateFeatureNodes ==
    /\ pc = "generate_nodes"
    /\ nodes' = GenerateNodes(segments, cfg.node_id_start)
    /\ pc' = "simplify_network"
    /\ UNCHANGED <<segments, ways, out, node_id, way_id, junction_ids>>
    /\ UNCHANGED Fixed

\* topology::simplify_network; the hash map yields the groups in any order
SimplifyNetwork ==
    /\ pc = "simplify_network"
    /\ LET segs == SimplifyGeometries(segments)
       IN  /\ segments' = segs
           /\ \E order \in Orderings(DOMAIN group_segments(segs, cfg.method)) :
                 ways' = MergeSegments(segs, cfg.method, order)
    /\ pc' = "pass0"
    /\ UNCHANGED <<nodes, out, node_id, way_id, junction_ids>>
    /\ UNCHANGED Fixed

\* the working state of write_pbf_three_pass
WriterState ==
    [out |-> out, node_id |-> node_id, way_id |-> way_id,
     junction_ids |-> junction_ids, segs |-> segments, ids |-> <<>>,
     refs |-> <<>>]

Pass0 ==
    /\ pc = "pass0"
    /\ LET st == WriteFeatures(nodes, WriterState)
       IN  out' = st.out /\ node_id' = st.node_id
    /\ pc' = "pass1"
    /\ UNCHANGED <<segments, nodes, ways, way_id, junction_ids>>
    /\ UNCHANGED Fixed

Pass1 ==
    /\ pc = "pass1"
    /\ LET st == WriteJunctions(segments, ways, WriterState)
       IN  /\ out' = st.out /\ node_id' = st.node_id
           /\ junction_ids' = st.junction_ids
    /\ pc' = "pass2"
    /\ UNCHANGED <<segments, nodes, ways, way_id>>
    /\ UNCHANGED Fixed

Pass2 ==
    /\ pc = "pass2"
    /\ LET seg_order == Flatten([w \in 1..Len(ways) |-> ways[w].segment_indices])
           st == WriteInteriors(seg_order, WriterState)
       IN  out' = st.out /\ node_id' = st.node_id /\ segments' = st.segs
    /\ pc' = "pass3"
    /\ UNCHANGED <<nodes, ways, way_id, junction_ids>>
    /\ UNCHANGED Fixed

Pass3 ==
    /\ pc = "pass3"
    /\ LET st == WriteWays(segments, ways, WriterState)
       IN  out' = st.out /\ node_id' = st.node_id /\ way_id' = st.way_id
    /\ pc' = "finish"
    /\ UNCHANGED <<segments, nodes, ways, junction_ids>>
    /\ UNCHANGED Fixed

\* writer.finish(); process_nvdb_wkb returns true
Finish ==
    /\ pc = "finish"
    /\ pc' = "done"
    /\ UNCHANGED <<segments, nodes, ways, out, node_id, way_id, junction_ids>>
    /\ UNCHANGED Fixed

Next ==
    \/ TagNetwork \/ GenerateFeatureNodes \/ SimplifyNetwork
    \/ Pass0 \/ Pass1 \/ Pass2 \/ Pass3 \/ Finish

Spec == Init /\ [][Next]_vars

-----------------------------------------------------------------------------
(* Claims about map_oneway, tag_direction and tag_network *)

\* the k-th segment has been through map_oneway
OnewayDone(k) ==
    \/ pc \in {"tag_isolated_tracks", "tagged"}
    \/ idx > k
    \/ idx = k /\ pc \notin {"tag_network", "map_bridge_tunnel", "map_oneway"}

\* C6: after map_oneway the tags hold oneway=yes exactly when
\* oneway_direction is not None; a Backward segment's geometry is the exact
\* reverse of the geometry it was built with, a Forward or None segment's
\* geometry is unchanged.
C6_OnewayContract ==
    \A k \in 1..Len(segments) :
        OnewayDone(k) =>
            LET seg == segments[k]
                before == input[k].geometry
            IN  /\ (Get(seg.tags, "oneway") = Some("yes"))
                       <=> (seg.oneway_direction # "None")
                /\ Has(seg.tags, "oneway") => seg.tags["oneway"] = "yes"
                /\ seg.oneway_direction = "Backward" =>
                       /\ seg.geometry = Reverse(before)
                       /\ seg.geometry[1] = before[Len(before)]
                /\ seg.oneway_direction \in {"Forward", "None"} =>
                       seg.geometry = before

\* a forward-forbidden segment has just been reversed by map_oneway
C6_Witness ==
    /\ pc = "map_highway"
    /\ idx = 1
    /\ segments[1].oneway_direction = "Backward"
    /\ segments[1].geometry # input[1].geometry
    /\ Truthy(input[1], "F_ForbjudenFardriktning")
    /\ Truthy(input[1], "Korfa_524")

\* the keys the directional rules write with a direction suffix
DirectionalKeys ==
    { base \o suffix :
        base \in {"maxspeed", "motor_vehicle", "junction", "hazmat",
                  "overtaking", "psv", "lanes:psv", "maxweight"},
        suffix \in {":forward", ":backward"} }

\* C7: after tag_network no segment tagged highway=cycleway or
\* highway=footway carries a :forward or :backward tag of the directional
\* rules.
C7_NoDirectionalOnCycleway ==
    pc = "tagged" =>
        \A k \in 1..Len(segments) :
            Get(segments[k].tags, "highway") \in {Some("cycleway"), Some("footway")}
                => DOMAIN segments[k].tags \cap DirectionalKeys = {}

\* a tagged cycleway that carries a directional speed attribute
C7_Witness ==
    /\ pc = "tagged"
    /\ \E k \in 1..Len(segments) :
          /\ Get(segments[k].tags, "highway") = Some("cycleway")
          /\ Has(segments[k].properties, "F_Hogst_225")

\* the string a prop contributes, as the contract words it
C8_Value(prop) ==
    IF IsNone(prop) \/ prop = Some(0) THEN None
    ELSE IF IsSome(fin.value) /\ prop = Some(1) THEN fin.value
    ELSE Some(IntToString(Unwrap(prop)))

\* the keys and values the contract says are written
C8_Written ==
    LET vf == C8_Value(fin.prop_forward)
        vb == C8_Value(fin.prop_backward)
        fwd == fin.tag \o ":forward"
        bwd == fin.tag \o ":backward"
    IN  IF IsNone(vf) /\ IsNone(vb) THEN EmptyMap
        ELSE IF IsSome(vf) /\ vf = vb THEN (fin.tag :> Unwrap(vf))
        ELSE CASE fin.oneway = "Forward" ->
                    IF IsSome(vf) THEN (fin.tag :> Unwrap(vf)) ELSE EmptyMap
               [] fin.oneway = "Backward" ->
                    IF IsSome(vb) THEN (fin.tag :> Unwrap(vb)) ELSE EmptyMap
               [] OTHER ->
                    (IF IsSome(vf) THEN (fwd :> Unwrap(vf)) ELSE EmptyMap)
                    @@ (IF IsSome(vb) THEN (bwd :> Unwrap(vb)) ELSE EmptyMap)

\* C8: tag_direction writes exactly the keys of its contract (nothing when
\* both props are absent or zero, one collapsed tag when both values are
\* equal, else by oneway: the forward value as tag, the backward value as
\* tag, or tag:forward and tag:backward independently) and leaves every
\* other key as it was.
C8_TagDirectionContract ==
    pc = "returned" =>
        LET result == Unwrap(fout)
        IN  /\ DOMAIN result = DOMAIN fin.tags \cup DOMAIN C8_Written
            /\ \A k \in DOMAIN C8_Written : result[k] = C8_Written[k]
            /\ \A k \in DOMAIN fin.tags \ DOMAIN C8_Written :
                   result[k] = fin.tags[k]

\* both props are 1 with a fixed value: the direction is collapsed
C8_Witness ==
    /\ pc = "returned"
    /\ fin.oneway = "None"
    /\ fin.value = Some("no")
    /\ fin.prop_forward = Some(1) /\ fin.prop_backward = Some(1)
    /\ fin.tags = EmptyMap
    /\ Unwrap(fout) = (fin.tag :> "no")

\* the Farjeled attribute of a row is true
FarjeledTrue(seg) ==
    /\ Has(seg.properties, "Farjeled")
    /\ seg.properties["Farjeled"] \in {PBool(TRUE), PInt(1)}

\* C9: a segment with Farjeled true (a boolean true or an integer 1),
\* Kateg_380 = 1 and Huvnr_556_1 = "4" ends tag_network with route=ferry,
\* foot=yes, ferry=trunk and ref="E 4".
C9_FerryTags ==
    pc = "tagged" =>
        \A k \in 1..Len(segments) :
            ( /\ FarjeledTrue(segments[k])
              /\ SegI64(segments[k], "Kateg_380") = Some(1)
              /\ Has(segments[k].properties, "Huvnr_556_1")
              /\ as_string(segments[k].properties["Huvnr_556_1"]) = "4" )
            => /\ Get(segments[k].tags, "route") = Some("ferry")
               /\ Get(segments[k].tags, "foot") = Some("yes")
               /\ Get(segments[k].tags, "ferry") = Some("trunk")
               /\ Get(segments[k].tags, "ref") = Some("E 4")

\* the same row with Farjeled as the integer 1 does get the ferry tags
C9_IntegerFerry ==
    /\ pc = "tagged"
    /\ Get(segments[1].properties, "Farjeled") = Some(PInt(1))
    /\ Get(segments[1].tags, "route") = Some("ferry")
    /\ Get(segments[1].tags, "ref") = Some("E 4")

-----------------------------------------------------------------------------
(* Claims about the emitted stream and the simplified ways *)

\* write_pbf_three_pass has returned
Written == pc \in {"finish", "done"}

\* the positions of the nodes written by the given passes for hash h
NodesAt(h, passes) ==
    { i \in 1..Len(out) :
        /\ out[i].kind = "node"
        /\ out[i].pass \in passes
        /\ hash_coord(out[i].coord) = h }

\* the emitted ways, in emission order: WayElements[w] is written for ways[w]
WayElements == SelectSeq(out, LAMBDA e : e.kind = "way")

\* the ways a segment belongs to
WaysOf(i) == { w \in 1..Len(ways) : i \in Range(ways[w].segment_indices) }

EndHashes(i) == {segments[i].start_node, segments[i].end_node}

\* for every two segments with a common end hash, exactly one of the nodes
\* written by `passes` has that hash and the ways of both reference it
OneNodePerSharedEnd(passes) ==
    \A a, b \in 1..Len(segments) :
        a # b =>
            \A h \in EndHashes(a) \cap EndHashes(b) :
                /\ Cardinality(NodesAt(h, passes)) = 1
                /\ \A i \in NodesAt(h, passes) :
                      \A w \in WaysOf(a) \cup WaysOf(b) :
                          out[i].id \in Range(WayElements[w].refs)

\* C1 (as stated): for every two segments whose start or end hashes are
\* equal, exactly one node with that hash exists among all emitted nodes,
\* feature nodes included, and the ways of both segments reference its ID.
C1_OneNodeAmongAll == Written => OneNodePerSharedEnd({0, 1, 2})

\* C1 (amended): for every two segments whose start or end hashes are
\* equal, exactly one node with that hash exists among the junction and
\* interior nodes, it is a junction node, and the ways of both segments
\* reference its ID; feature nodes are separate nodes that may lie on it.
C1_OneJunctionNodePerSharedEnd ==
    Written =>
        /\ OneNodePerSharedEnd({1, 2})
        /\ \A a \in 1..Len(segments) : \A h \in EndHashes(a) :
               /\ NodesAt(h, {2}) = {}
               /\ \A i \in NodesAt(h, {1}) : out[i].id = junction_ids[h]

\* two segments of different ways meet where a feature node lies too
C1_Witness ==
    /\ Written
    /\ \E a, b \in 1..Len(segments) :
          /\ WaysOf(a) \cap WaysOf(b) = {}
          /\ segments[a].end_node = segments[b].start_node
          /\ NodesAt(segments[b].start_node, {0}) # {}
          /\ NodesAt(segments[b].start_node, {1}) # {}

\* the coordinate hashes of the segments of a way
WayHashes(w) ==
    UNION { { hash_coord(segments[i].geometry[k]) :
                k \in 1..Len(segments[i].geometry) } :
            i \in Range(ways[w].segment_indices) }

\* the first and last coordinate hash of a way
WayEndHashes(w) ==
    { segments[ways[w].segment_indices[1]].start_node,
      segments[Last(ways[w].segment_indices)].end_node }

\* C2: every coordinate hash that occurs in segments of more than one way,
\* or that is the first or last coordinate of a way, is written exactly once
\* as a junction or interior node, and every way through it references that
\* node's ID; an interior point of two segments included.
C2_SharedCoordinateOnce ==
    Written =>
        \A w \in 1..Len(ways) : \A h \in WayHashes(w) :
            (h \in WayEndHashes(w)
             \/ \E v \in 1..Len(ways) : v # w /\ h \in WayHashes(v))
            => /\ Cardinality(NodesAt(h, {1, 2})) = 1
               /\ \A i \in NodesAt(h, {1, 2}) :
                      out[i].id \in Range(WayElements[w].refs)

\* an interior coordinate that meets a junction reuses the junction's node
C2_InteriorReusesJunction ==
    /\ Written
    /\ \E i \in 1..Len(segments) : \E k \in 2..(Len(segments[i].geometry) - 1) :
          LET h == hash_coord(segments[i].geometry[k])
          IN  /\ h \notin EndHashes(i)
              /\ Has(junction_ids, h)
              /\ segments[i].internal_node_ids[k - 1] = junction_ids[h]
              /\ Cardinality(NodesAt(h, {1, 2})) = 1

\* feature nodes 0, junction nodes 1, interior nodes 2, ways 3
Rank(e) == IF e.kind = "node" THEN e.pass ELSE 3

\* C3: in the emitted sequence every feature node precedes every junction
\* node, every junction node precedes every interior node and every node
\* precedes every way; every ID in a way's reference list was written as a
\* node earlier in the sequence.
C3_EmissionOrder ==
    /\ \A i, j \in 1..Len(out) : i < j => Rank(out[i]) <= Rank(out[j])
    /\ \A j \in 1..Len(out) :
          out[j].kind = "way" =>
              \A r \in Range(out[j].refs) :
                  \E i \in 1..(j - 1) : out[i].kind = "node" /\ out[i].id = r

\* a stream with nodes of all three passes and at least two ways
C3_Witness ==
    /\ Written
    /\ \A pass \in {0, 1, 2} :
          \E i \in 1..Len(out) : out[i].kind = "node" /\ out[i].pass = pass
    /\ Len(WayElements) >= 2

\* the IDs assigned in the junction pass
JunctionPassIds == { out[i].id : i \in { k \in 1..Len(out) : Rank(out[k]) = 1 } }

\* the two ends of an emitted way: <<reference, coordinate hash>>
WayEnds(w) ==
    { <<WayElements[w].refs[1], segments[ways[w].segment_indices[1]].start_node>>,
      <<Last(WayElements[w].refs),
        segments[Last(ways[w].segment_indices)].end_node>> }

\* C4: an emitted way's node-ID list has no two consecutive equal IDs, its
\* first and last IDs were assigned in the junction pass, and an end of it
\* has the same ID as an end of another way exactly when their coordinate
\* hashes are equal.
C4_WayNodeLists ==
    Written =>
        \A w \in 1..Len(WayElements) :
            LET refs == WayElements[w].refs
            IN  /\ Len(refs) >= 1
                /\ \A k \in 1..(Len(refs) - 1) : refs[k] # refs[k + 1]
                /\ refs[1] \in JunctionPassIds
                /\ Last(refs) \in JunctionPassIds
                /\ \A v \in 1..Len(WayElements) :
                       v # w =>
                           \A e \in WayEnds(w), f \in WayEnds(v) :
                               (e[1] = f[1]) <=> (e[2] = f[2])

\* two ways share an end node, and a way lost a consecutive duplicate
C4_Witness ==
    /\ Written
    /\ \E w, v \in 1..Len(WayElements) :
          /\ w # v
          /\ \E e \in WayEnds(w), f \in WayEnds(v) : e[1] = f[1]
          /\ \E e \in WayEnds(w), f \in WayEnds(v) : e[1] # f[1]
    /\ \E w \in 1..Len(WayElements) :
          /\ Len(ways[w].segment_indices) = 1
          /\ Len(WayElements[w].refs) = 1

NodeElements == SelectSeq(out, LAMBDA e : e.kind = "node")
FeatureElements == SelectSeq(out, LAMBDA e : Rank(e) = 0)

\* C5: node IDs are strictly increasing in emission order and at least
\* node_id_start, the feature nodes have the consecutive IDs from
\* node_id_start, every junction and interior node ID is above every
\* feature-node ID, and the ways have the consecutive IDs from way_id_start.
C5_IdsIncrease ==
    /\ \A i \in 1..Len(NodeElements) :
          /\ NodeElements[i].id >= cfg.node_id_start
          /\ i > 1 => NodeElements[i - 1].id < NodeElements[i].id
    /\ pc \notin {"tag_network", "generate_nodes"} =>
          \A k \in 1..Len(nodes) : nodes[k].id = cfg.node_id_start + k - 1
    /\ \A k \in 1..Len(FeatureElements) :
          FeatureElements[k].id = cfg.node_id_start + k - 1
    /\ \A i, j \in 1..Len(NodeElements) :
          NodeElements[i].pass = 0 /\ NodeElements[j].pass # 0
              => NodeElements[i].id < NodeElements[j].id
    /\ \A w \in 1..Len(WayElements) :
          WayElements[w].id = cfg.way_id_start + w - 1

\* feature nodes of two segments, then junction and interior nodes, two ways
C5_Witness ==
    /\ Written
    /\ cfg.node_id_start = -1
    /\ Len(FeatureElements) >= 4
    /\ Len(NodeElements) >= Len(FeatureElements) + 3
    /\ \E i \in 1..Len(out) : Rank(out[i]) = 2
    /\ Len(WayElements) >= 2

\* C10: for every way returned by simplify_network, all its segments have
\* the same tag map and the way's tag map is that map.
C10_WayTagsShared ==
    pc \notin {"tag_network", "generate_nodes", "simplify_network"} =>
        \A w \in 1..Len(ways) :
            \A i \in Range(ways[w].segment_indices) :
                segments[i].tags = ways[w].tags

\* two segments that chain straight on in one group were split by their tags
C10_Witness ==
    /\ pc = "pass0"
    /\ cfg.method = "Refname"
    /\ Len(segments) = 2 /\ Len(ways) = 2
    /\ segments[1].end_node = segments[2].start_node
    /\ compute_junction_angle(segments[1], segments[2]) = 0
    /\ GroupId(segments[1], cfg.method) = GroupId(segments[2], cfg.method)
    /\ segments[1].tags # segments[2].tags

-----------------------------------------------------------------------------
(* Claims about the junction split of simplify_linear *)

\* simplify_network has returned
Simplified == pc \notin {"tag_network", "generate_nodes", "simplify_network"}

LinearMethods == {"Linear", "Refname", "Route"}

\* the number of entries of the global junction index at hash h
Incident(h) ==
    LET junctions == build_junctions(segments)
    IN  IF Has(junctions, h) THEN Len(junctions[h]) ELSE 0

\* C11: with method linear, refname or route, no way returned by
\* simplify_network has an internal segment boundary at a CoordHash where 3
\* or more segment ends meet in the global junction index.
C11_NoJunctionInsideWay ==
    (Simplified /\ cfg.method \in LinearMethods) =>
        \A w \in 1..Len(ways) :
            \A k \in 1..(Len(ways[w].segment_indices) - 1) :
                Incident(segments[ways[w].segment_indices[k]].end_node) < 3

\* two segments that chain straight on with equal tags in one group, and a
\* third segment of another row meeting them at their boundary: two ways
C11_Witness ==
    /\ pc = "pass0"
    /\ cfg.method = "Linear"
    /\ Len(segments) = 3
    /\ segments[1].end_node = segments[2].start_node
    /\ compute_junction_angle(segments[1], segments[2]) = 0
    /\ segments[1].tags = segments[2].tags
    /\ GroupId(segments[1], cfg.method) = GroupId(segments[2], cfg.method)
    /\ segments[3].start_node = segments[1].end_node
    /\ segments[3].end_node \notin {segments[1].start_node, segments[2].end_node}
    /\ Incident(segments[1].end_node) = 3
    /\ WaysOf(1) # WaysOf(2)

-----------------------------------------------------------------------------
(* lib.rs: parse_wkb.  A buffer is a sequence of bytes; byte k of the Rust
   slice is wkb[k + 1].  A coordinate travels in its 8 bytes as an unsigned
   integer in the buffer's byte order, counting tenths of the 1e-7 degree
   unit, in place of the IEEE-754 bit pattern; the upper five bytes are
   zero in every buffer built here. *)

\* u32::from_le_bytes / from_be_bytes of the 4 bytes at `offset`, kept as the
\* most significant byte and the lower 24 bits
read_u32(wkb, offset, little_endian) ==
    LET b0 == wkb[offset + 1]
        b1 == wkb[offset + 2]
        b2 == wkb[offset + 3]
        b3 == wkb[offset + 4]
    IN  IF little_endian
        THEN [top |-> b3, low |-> b0 + 256 * b1 + 65536 * b2]
        ELSE [top |-> b0, low |-> b3 + 256 * b2 + 65536 * b1]

\* a variant that reads every buffer as big-endian
read_f64_be(bytes, little_endian) ==
    bytes[8] + 256 * bytes[7] + 65536 * bytes[6]

read_f64(bytes, little_endian) ==
    IF little_endian
    THEN bytes[1] + 256 * bytes[2] + 65536 * bytes[3]
    ELSE bytes[8] + 256 * bytes[7] + 65536 * bytes[6]

\* geom_type & 0x20000000, & 0x80000000, & 0x40000000
HasSridFlag(geom_type) == (geom_type.top \div 32) % 2 = 1
HasZFlag(geom_type) == geom_type.top >= 128
HasMFlag(geom_type) == (geom_type.top \div 64) % 2 = 1

\* geom_type & 0x1FFFFFFF
CleanGeomType(geom_type) == (geom_type.top % 32) * 16777216 + geom_type.low

\* 16 + 8 if Z + 8 if M, from the EWKB flags or the ISO thousands
CoordSize(geom_type) ==
    LET iso == CleanGeomType(geom_type) \div 1000
        has_z == HasZFlag(geom_type) \/ iso = 1 \/ iso = 3
        has_m == HasMFlag(geom_type) \/ iso = 2 \/ iso = 3
    IN  16 + (IF has_z THEN 8 ELSE 0) + (IF has_m THEN 8 ELSE 0)

\* a variant that accepts a buffer shorter than its declared points
parse_linestring_wkb_unchecked(wkb, offset, little_endian, coord_size) ==
    IF Len(wkb) < offset + 4 THEN None
    ELSE LET num_points == read_u32(wkb, offset, little_endian)
             point_offset == offset + 4
             avail == (Len(wkb) - point_offset) \div coord_size
             n == IF num_points.top > 0 \/ num_points.low > avail
                  THEN avail ELSE num_points.low
         IN  Some([i \in 1..n |->
                 LET base == point_offset + (i - 1) * coord_size
                 IN  Coord(read_f64(SubSeq(wkb, base + 1, base + 8),
                                    little_endian),
                           read_f64(SubSeq(wkb, base + 9, base + 16),
                                    little_endian))])

\* None, or the points of the LineString whose point count is at `offset`;
\* a count of 2^24 or more exceeds every buffer
parse_linestring_wkb(wkb, offset, little_endian, coord_size) ==
    IF Len(wkb) < offset + 4 THEN None
    ELSE LET num_points == read_u32(wkb, offset, little_endian)
             point_offset == offset + 4
         IN  IF \/ num_points.top > 0
                \/ Len(wkb) < point_offset + num_points.low * coord_size
             THEN None
             ELSE Some([i \in 1..num_points.low |->
                     LET base == point_offset + (i - 1) * coord_size
                     IN  Coord(read_f64(SubSeq(wkb, base + 1, base + 8),
                                        little_endian),
                               read_f64(SubSeq(wkb, base + 9, base + 16),
                                        little_endian))])

\* the first LineString of a MultiLineString; the part count is read at
\* offset 5 and the first part at offset 9
parse_multilinestring_wkb(wkb, little_endian, coord_size) ==
    IF Len(wkb) < 9 THEN None
    ELSE LET num_geoms == read_u32(wkb, 5, little_endian)
             geom_start == 9
         IN  IF num_geoms.top = 0 /\ num_geoms.low = 0 THEN None
             ELSE IF Len(wkb) < geom_start + 5 THEN None
             ELSE IF wkb[geom_start + 1] > 1 THEN None
             ELSE LET geom_little_endian == wkb[geom_start + 1] = 1
                      geom_type == read_u32(wkb, geom_start + 1,
                                            geom_little_endian)
                      inner_offset == geom_start + 5
                          + (IF HasSridFlag(geom_type) THEN 4 ELSE 0)
                  IN  IF CleanGeomType(geom_type) % 1000 # 2 THEN None
                      ELSE parse_linestring_wkb(wkb, inner_offset,
                               geom_little_endian, CoordSize(geom_type))

parse_wkb(wkb) ==
    IF Len(wkb) < 9 THEN None
    ELSE IF wkb[1] > 1 THEN None
    ELSE LET little_endian == wkb[1] = 1
             geom_type == read_u32(wkb, 1, little_endian)
             base_type == CleanGeomType(geom_type) % 1000
             offset == 5 + (IF HasSridFlag(geom_type) THEN 4 ELSE 0)
         IN  CASE base_type = 2 ->
                    parse_linestring_wkb(wkb, offset, little_endian,
                                         CoordSize(geom_type))
               [] base_type = 5 ->
                    parse_multilinestring_wkb(wkb, little_endian,
                                              CoordSize(geom_type))
               [] OTHER -> None

\* round_ties_even(x * 1e7) for x * 1e7 = t / 10: the nearest unit, a half
\* going to the even neighbour
round_ties_even(t) ==
    LET q == t \div 10
        m == t % 10
    IN  IF m = 5 THEN (IF q % 2 = 0 THEN q ELSE q + 1)
        ELSE IF m < 5 THEN q ELSE q + 1

\* process_nvdb_wkb: every coordinate of a decoded geometry canonicalised
Canonicalize(geom) ==
    [i \in 1..Len(geom) |->
        Coord(round_ties_even(geom[i].x), round_ties_even(geom[i].y))]

-----------------------------------------------------------------------------
(* Ingestion specification: process_nvdb_wkb from its call to its return,
   for up to MaxRows geometry cells drawn from GeomCells, with a writer
   whose every call may succeed or fail. *)

MaxRows == 2

EncodeU32(v, little_endian) ==
    LET le == <<v % 256, (v \div 256) % 256, (v \div 65536) % 256, 0>>
    IN  IF little_endian THEN le ELSE Reverse(le)

EncodeF64(t, little_endian) ==
    LET le == <<t % 256, (t \div 256) % 256, (t \div 65536) % 256,
                0, 0, 0, 0, 0>>
    IN  IF little_endian THEN le ELSE Reverse(le)

EncodePoints(points, little_endian) ==
    Flatten([i \in 1..Len(points) |->
        EncodeF64(points[i].x, little_endian)
        \o EncodeF64(points[i].y, little_endian)])

\* a buffer of the given type that declares `count` points and holds `points`
EncodeGeometry(little_endian, geom_type, count, points) ==
    <<IF little_endian THEN 1 ELSE 0>>
    \o EncodeU32(geom_type, little_endian)
    \o EncodeU32(count, little_endian)
    \o EncodePoints(points, little_endian)

\* a grid point, in tenths of the unit
T(i, j) == Coord(10 * i * Step, 10 * j * Step)

RawCell(bytes) == [raw |-> TRUE, bytes |-> bytes]

\* the geometry cells a call is assembled from
GeomCells ==
    { \* not a raw vector
      [raw |-> FALSE, bytes |-> <<>>],
      \* LineStrings of two points, little- and big-endian
      RawCell(EncodeGeometry(TRUE, 2, 2, <<T(0, 0), T(1, 0)>>)),
      RawCell(EncodeGeometry(FALSE, 2, 2, <<T(1, 0), T(1, 1)>>)),
      \* a LineString whose second point lies half a unit off the grid
      RawCell(EncodeGeometry(TRUE, 2, 2,
                  <<T(0, 0), Coord(10 * Step + 5, 0)>>)),
      \* LineStrings that declare no point and one point
      RawCell(EncodeGeometry(TRUE, 2, 0, <<>>)),
      RawCell(EncodeGeometry(TRUE, 2, 1, <<T(0, 0)>>)),
      \* a LineString that declares two points and holds one
      RawCell(EncodeGeometry(TRUE, 2, 2, <<T(0, 0)>>)),
      \* a Point
      RawCell(EncodeGeometry(TRUE, 1, 0, <<T(0, 0)>>)),
      \* a MultiLineString of one LineString
      RawCell(<<1>> \o EncodeU32(5, TRUE) \o EncodeU32(1, TRUE)
              \o EncodeGeometry(TRUE, 2, 2, <<T(1, 0), T(2, 0)>>)) }

\* the speed limit column and the ferry column for n rows
SpeedColumn(n) == [i \in 1..n |-> IntCell(20 + 10 * i)]
FerryColumn(n) == [i \in 1..n |-> IntCell(-1)]

\* col_names and col_data of a call with n rows
ColumnSets(n) ==
    { [names |-> <<"F_Hogst_225">>, data |-> <<SpeedColumn(n)>>],
      [names |-> <<"F_Hogst_225", "Farjeled">>,
       data |-> <<SpeedColumn(n), FerryColumn(n)>>],
      [names |-> <<"F_Hogst_225", "Farjeled">>, data |-> <<SpeedColumn(n)>>] }

Calls ==
    UNION { { [wkb_geoms |-> g, cols |-> c] :
                g \in [1..n -> GeomCells], c \in ColumnSets(n) } :
            n \in 0..MaxRows }

\* a variant of the entry checks that does not compare the column counts
entry_check_no_columns(n, n_data, n_names) ==
    IF n = 0 THEN "empty" ELSE "ok"

\* process_nvdb_wkb: the checks before any row is read
entry_check(n, n_data, n_names) ==
    IF n = 0 THEN "empty"
    ELSE IF n_data # n_names THEN "mismatch"
    ELSE "ok"

\* PreprocessedColumns: the cells of row i (counted from 0), column by
\* column, for the columns that have a name and a value in that row
RowAt(cols, i) ==
    LET used == { c \in 1..Len(cols.data) :
                    c <= Len(cols.names) /\ i < Len(cols.data[c]) }
    IN  [name \in { cols.names[c] : c \in used } |->
            cols.data[CHOOSE c \in used : cols.names[c] = name][i + 1]]

\* a variant that reads the properties at the number of segments built
RowOfSegmentCount(i, built) == built

\* the row index handed to build_properties for input row i
RowIndex(i, built) == i

\* the decoded and canonicalised geometry of a cell, None when it is skipped
DecodeCell(cell) ==
    IF ~cell.raw THEN None
    ELSE LET parsed == parse_wkb(cell.bytes)
         IN  IF IsNone(parsed) THEN None
             ELSE Some(Canonicalize(Unwrap(parsed)))

IngInit ==
    /\ input \in Calls
    /\ cfg = [method |-> "Refname", node_id_start |-> 1, way_id_start |-> 1]
    /\ pc = "entry"
    /\ segments = <<>> /\ nodes = <<>> /\ ways = <<>> /\ out = <<>>
    /\ node_id = cfg.node_id_start
    /\ way_id = cfg.way_id_start
    /\ junction_ids = EmptyMap
    /\ idx = 0
    /\ fin = [built |-> <<>>, opened |-> FALSE, write_failed |-> FALSE,
              why |-> ""]
    /\ fout = None

IngPipeline == <<segments, nodes, ways, out, node_id, way_id, junction_ids>>

\* process_nvdb_wkb returns `result`
IngReturn(result, why) ==
    /\ pc' = "returned"
    /\ fout' = Some(result)
    /\ fin' = [fin EXCEPT !.why = why]

IngEntry ==
    /\ pc = "entry"
    /\ LET check == entry_check(Len(input.wkb_geoms), Len(input.cols.data),
                                Len(input.cols.names))
       IN  IF check = "ok"
           THEN pc' = "ingest" /\ UNCHANGED <<fin, fout>>
           ELSE IngReturn(FALSE, check)
    /\ UNCHANGED <<cfg, input, idx>>
    /\ UNCHANGED IngPipeline

\* one turn of the loop over wkb_geoms; Segment::new unwraps the first and
\* last point of the geometry and panics when there is none
IngRow ==
    /\ pc = "ingest"
    /\ idx < Len(input.wkb_geoms)
    /\ LET geometry == DecodeCell(input.wkb_geoms[idx + 1])
       IN  IF IsNone(geometry)
           THEN /\ idx' = idx + 1
                /\ UNCHANGED <<pc, segments, fin>>
           ELSE IF Len(Unwrap(geometry)) = 0
           THEN /\ pc' = "panicked"
                /\ UNCHANGED <<idx, segments, fin>>
           ELSE /\ segments' = Append(segments,
                       BuildSegment(Unwrap(geometry),
                           RowAt(input.cols, RowIndex(idx, Len(segments)))))
                /\ fin' = [fin EXCEPT !.built = Append(@, idx)]
                /\ idx' = idx + 1
                /\ UNCHANGED pc
    /\ UNCHANGED <<cfg, input, fout>>
    /\ UNCHANGED <<nodes, ways, out, node_id, way_id, junction_ids>>

\* after the loop: no segment is a failure, else tagging begins
IngRowsDone ==
    /\ pc = "ingest"
    /\ idx = Len(input.wkb_geoms)
    /\ IF Len(segments) = 0
       THEN IngReturn(FALSE, "no_valid")
       ELSE pc' = "tag_network" /\ UNCHANGED <<fin, fout>>
    /\ UNCHANGED <<cfg, input, idx>>
    /\ UNCHANGED IngPipeline

\* PbfWriter::from_path: an error ends the run with false
IngOpen ==
    /\ pc = "pass0"
    /\ ~fin.opened
    /\ \E ok \in BOOLEAN :
          IF ok
          THEN /\ fin' = [fin EXCEPT !.opened = TRUE]
               /\ UNCHANGED <<pc, fout>>
          ELSE IngReturn(FALSE, "open")
    /\ UNCHANGED <<cfg, input, idx>>
    /\ UNCHANGED IngPipeline

\* one pass of the writer: the result of every writer.write is dropped, so
\* whether one of them was an error changes nothing but the record of it
IngWrite(from, to, st) ==
    /\ pc = from
    /\ fin.opened
    /\ out' = st.out /\ node_id' = st.node_id /\ way_id' = st.way_id
    /\ junction_ids' = st.junction_ids /\ segments' = st.segs
    /\ \E err \in BOOLEAN :
          /\ err => Len(st.out) > Len(out)
          /\ fin' = [fin EXCEPT !.write_failed = @ \/ err]
    /\ pc' = to
    /\ UNCHANGED <<cfg, input, idx, fout, nodes, ways>>

IngPass0 == IngWrite("pass0", "pass1", WriteFeatures(nodes, WriterState))

IngPass1 ==
    IngWrite("pass1", "pass2", WriteJunctions(segments, ways, WriterState))

IngPass2 ==
    IngWrite("pass2", "pass3",
        WriteInteriors(Flatten([w \in 1..Len(ways) |-> ways[w].segment_indices]),
                       WriterState))

IngPass3 == IngWrite("pass3", "finish", WriteWays(segments, ways, WriterState))

\* writer.finish(): Ok gives true, an error gives false
IngFinish ==
    /\ pc = "finish"
    /\ \E ok \in BOOLEAN : IngReturn(ok, IF ok THEN "ok" ELSE "finish")
    /\ UNCHANGED <<cfg, input, idx>>
    /\ UNCHANGED IngPipeline

IngNext ==
    \/ IngEntry \/ IngRow \/ IngRowsDone
    \/ TagNetwork \/ GenerateFeatureNodes \/ SimplifyNetwork
    \/ IngOpen \/ IngPass0 \/ IngPass1 \/ IngPass2 \/ IngPass3 \/ IngFinish

IngestSpec == IngInit /\ [][IngNext]_vars

-----------------------------------------------------------------------------
(* Claims about ingestion and the writer's errors, checked under IngestSpec *)

EntryRejects ==
    \/ Len(input.wkb_geoms) = 0
    \/ Len(input.cols.data) # Len(input.cols.names)

Decodes(i) == IsSome(DecodeCell(input.wkb_geoms[i + 1]))

\* the rows below k that decode, in input order
DecodedBelow(k) ==
    SelectSeq([i \in 1..k |-> i - 1], LAMBDA i : Decodes(i))

\* C12: when the geometry list is empty or the number of data columns
\* differs from the number of column names, process_nvdb_wkb returns false
\* straight from its entry: no row is read, no segment is built, the writer
\* is never opened and nothing is written.
C12_EntryChecksAbort ==
    EntryRejects =>
        /\ pc \in {"entry", "returned"}
        /\ pc = "returned" => fout = Some(FALSE)
        /\ idx = 0
        /\ segments = <<>> /\ fin.built = <<>>
        /\ ~fin.opened
        /\ out = <<>>

\* two rows that both decode, one column of data for two names: rejected
C12_Witness ==
    /\ pc = "returned"
    /\ fout = Some(FALSE)
    /\ Len(input.wkb_geoms) = 2
    /\ Decodes(0) /\ Decodes(1)
    /\ Len(input.cols.data) = 1 /\ Len(input.cols.names) = 2
    /\ segments = <<>>

C14_NoSuccessAfterFailedWrite ==
    (pc = "returned" /\ fout = Some(TRUE)) => ~fin.write_failed

\* the errors that do end the run with false: opening and finishing
C14_OpenAndFinishErrorsReturnFalse ==
    /\ fin.why \in {"open", "finish"} => (pc = "returned" /\ fout = Some(FALSE))
    /\ fin.why = "open" => out = <<>>

C14_Witness ==
    /\ pc = "returned"
    /\ fin.why = "finish"
    /\ fin.write_failed
    /\ fout = Some(FALSE)

\* C15: no panic escapes process_nvdb_wkb: Segment::new is never applied to
\* an empty geometry.
C15_NoPanic == pc # "panicked"

\* a well-formed LineString that declares no point has been decoded
C15_ZeroPointLineString ==
    /\ pc = "panicked"
    /\ input.wkb_geoms[idx + 1].raw
    /\ parse_wkb(input.wkb_geoms[idx + 1].bytes) = Some(<<>>)

\* C16: every segment, at every stage, has at least two coordinates.
C16_AtLeastTwoCoordinates ==
    \A k \in 1..Len(segments) : Len(segments[k].geometry) >= 2

\* a LineString of one point has become a segment and reached the output
C16_OnePointSegment ==
    /\ pc = "returned" /\ fout = Some(TRUE)
    /\ \E k \in 1..Len(segments) : Len(segments[k].geometry) = 1

-----------------------------------------------------------------------------
(* Claims about the Segment invariants, checked under Spec *)

\* C17: at every stage, each segment's start_node is the hash of its first
\* geometry point and its end_node the hash of its last one: after
\* construction, after the reversal of map_oneway and after the
\* Douglas-Peucker replacement of simplify_network.
C17_EndNodesFollowGeometry ==
    \A k \in 1..Len(segments) :
        /\ segments[k].start_node = hash_coord(segments[k].geometry[1])
        /\ segments[k].end_node
              = hash_coord(segments[k].geometry[Len(segments[k].geometry)])

\* after simplification: one segment has been reversed by map_oneway and
\* another has lost a point to Douglas-Peucker
C17_Witness ==
    /\ pc = "pass0"
    /\ \E k \in 1..Len(segments) :
          /\ Len(input[k].geometry) = 2
          /\ input[k].start_node # input[k].end_node
          /\ segments[k].geometry = Reverse(input[k].geometry)
          /\ segments[k].start_node = input[k].end_node
    /\ \E k \in 1..Len(segments) :
          /\ Len(segments[k].geometry) < Len(input[k].geometry)
          /\ segments[k].end_node = input[k].end_node

-----------------------------------------------------------------------------
(* hash_coord on pairs of coordinates whose scaled components fit in signed
   32 bits *)

\* scaled components: the ends of the signed 32-bit range and values around 0
HashValues == {-2147483647, -Step, -1, 0, 1, Step, 2147483647}

HashCoords == { Coord(x, y) : x \in HashValues, y \in HashValues }

HashInit ==
    /\ input \in HashCoords \X HashCoords
    /\ pc = "hash_coord"
    /\ cfg = <<>>
    /\ segments = <<>> /\ nodes = <<>> /\ ways = <<>> /\ out = <<>>
    /\ node_id = 0 /\ way_id = 0 /\ junction_ids = EmptyMap
    /\ idx = 0 /\ fin = <<>> /\ fout = <<>>

\* both coordinates are hashed
HashBoth ==
    /\ pc = "hash_coord"
    /\ fout' = <<hash_coord(input[1]), hash_coord(input[2])>>
    /\ pc' = "hashed"
    /\ UNCHANGED <<cfg, input, segments, nodes, ways, out, node_id, way_id,
                   junction_ids, idx, fin>>

HashNext == HashBoth

HashSpec == HashInit /\ [][HashNext]_vars

\* C18: two coordinates whose scaled components fit in signed 32 bits get
\* the same CoordHash if and only if both scaled components are equal.
C18_HashInjective ==
    pc = "hashed" => (fout[1] = fout[2] <=> input[1] = input[2])

\* two points on the same western meridian at different latitudes collide
C18_WesternCollision ==
    /\ pc = "hashed"
    /\ input[1].x = -1 /\ input[2].x = -1
    /\ input[1].y = 0 /\ input[2].y = 1
    /\ fout[1] = fout[2]

\* east of Greenwich the packing does tell any two coordinates apart
C18_EasternInjective ==
    (pc = "hashed" /\ input[1].x >= 0 /\ input[2].x >= 0) =>
        (fout[1] = fout[2] <=> input[1] = input[2])

-----------------------------------------------------------------------------
(* build_properties on one column of one row *)

\* the allow-list, and columns outside it
CellNames ==
    {"F_ForbudTrafik", "B_ForbudTrafik",
     "F_ForbjudenFardriktning", "B_ForbjudenFardriktning",
     "F_Cirkulationsplats", "B_Cirkulationsplats",
     "TattbebyggtOmrade", "Farjeled", "Motorvag", "Motortrafikled",
     "GCM_belyst", "GCM_passage",
     "F_Omkorningsforbud", "B_Omkorningsforbud",
     "L_Gagata", "R_Gagata", "L_Gangfartsomrade", "R_Gangfartsomrade",
     "Miljozon", "C_Rekbilvagcykeltrafik", "Rastplats",
     "L_Rastficka_2", "R_Rastficka_2",
     "F_ATK_Matplats", "B_ATK_Matplats",
     "F_Hogst_225", "Konst_190", "Klass_181", "Vagtr_474", "farjeled",
     "Farjeled_2"}

CellInts == {-Step, -2, -1, 0, 1, 2, Step}

\* reals in tenths: whole ones and ones with a fraction
CellReals == { 10 * v : v \in CellInts } \cup {-15, -11, -9, -5, 5, 15}

CellValues ==
    { IntCell(v) : v \in CellInts } \cup { RealCell(t) : t \in CellReals }
    \cup { LglCell(v) : v \in {0, 1} }
    \cup { NaCell(kind) : kind \in {"int", "real", "logical"} }

CellInit ==
    /\ input \in [name : CellNames, cell : CellValues]
    /\ pc = "build_properties"
    /\ cfg = <<>>
    /\ segments = <<>> /\ nodes = <<>> /\ ways = <<>> /\ out = <<>>
    /\ node_id = 0 /\ way_id = 0 /\ junction_ids = EmptyMap
    /\ idx = 0 /\ fin = <<>> /\ fout = <<>>

\* the properties of a row whose one column is input.name
CellBuild ==
    /\ pc = "build_properties"
    /\ fout' = build_properties(input.name :> input.cell)
    /\ pc' = "built"
    /\ UNCHANGED <<cfg, input, segments, nodes, ways, out, node_id, way_id,
                   junction_ids, idx, fin>>

CellNext == CellBuild

CellSpec == CellInit /\ [][CellNext]_vars

\* the cell is an integer, or a real with no fraction
WholeCell ==
    /\ ~input.cell.na
    /\ \/ input.cell.kind = "int"
       \/ input.cell.kind = "real" /\ input.cell.v % 10 = 0

WholeValue ==
    IF input.cell.kind = "int" THEN input.cell.v ELSE input.cell.v \div 10

AllowList ==
    {"F_ForbudTrafik", "B_ForbudTrafik",
     "F_ForbjudenFardriktning", "B_ForbjudenFardriktning",
     "F_Cirkulationsplats", "B_Cirkulationsplats",
     "TattbebyggtOmrade", "Farjeled", "Motorvag", "Motortrafikled",
     "GCM_belyst", "GCM_passage",
     "F_Omkorningsforbud", "B_Omkorningsforbud",
     "L_Gagata", "R_Gagata", "L_Gangfartsomrade", "R_Gangfartsomrade",
     "Miljozon", "C_Rekbilvagcykeltrafik", "Rastplats",
     "L_Rastficka_2", "R_Rastficka_2",
     "F_ATK_Matplats", "B_ATK_Matplats"}

\* C19: an integer cell, or a real cell with no fraction, of value -1 is
\* stored as integer 1 when the column is in the boolean allow-list and as
\* integer -1 when it is not; 1 is stored for no other reason than a cell
\* of 1 or an allow-listed -1; every other whole value is stored as that
\* integer, and a real with a fraction as that real.
C19_MinusOneNormalisedByField ==
    pc = "built" =>
        LET stored == Get(fout, input.name)
        IN  /\ WholeCell =>
                /\ (WholeValue = -1 /\ input.name \in AllowList)
                      => stored = Some(PInt(1))
                /\ (WholeValue = -1 /\ input.name \notin AllowList)
                      => stored = Some(PInt(-1))
                /\ WholeValue # -1 => stored = Some(PInt(WholeValue))
                /\ stored = Some(PInt(1)) <=>
                      \/ WholeValue = 1
                      \/ WholeValue = -1 /\ input.name \in AllowList
            /\ (~input.cell.na /\ input.cell.kind = "real"
                  /\ input.cell.v % 10 # 0)
                  => stored = Some(PFloat(input.cell.v))

\* the ferry column arrives as the real -1.0 and is stored as integer 1
C19_Witness ==
    /\ pc = "built"
    /\ input.name = "Farjeled"
    /\ input.cell = RealCell(-10)
    /\ fout = ("Farjeled" :> PInt(1))

\* the speed limit column holding -1 is stored as integer -1
C19_OtherColumnUntouched ==
    (pc = "built" /\ input.name = "F_Hogst_225" /\ input.cell = IntCell(-1))
        => fout = ("F_Hogst_225" :> PInt(-1))

-----------------------------------------------------------------------------
(* Bridge groups: detect_bridges and the tags tag_network gives the segments
   of a group *)

MaxGroup == 3

\* over-bridge geometries: short, exactly as long as the margin, longer
ShortGeometry == <<P(0, 0), P(1, 0)>>
MarginGeometry == <<Coord(0, 0), Coord(BridgeMargin, 0)>>
LongGeometry == <<Coord(0, 0), Coord(BridgeMargin + Step, 0)>>

BridgeCells(id, construction) ==
    ("Ident_191" :> StrCell(id)) @@ ("Konst_190" :> IntCell(construction))

NetType(v) == "Vagtr_474" :> IntCell(v)

BridgeRows ==
    { \* the road on the bridge
      BuildSegment(ShortGeometry, BridgeCells("B1", 1) @@ NetType(1)),
      BuildSegment(MarginGeometry, BridgeCells("B1", 1) @@ NetType(1)),
      BuildSegment(LongGeometry, BridgeCells("B1", 1) @@ NetType(1)),
      \* under the bridge, code 2: a road, a cycleway, no network type
      BuildSegment(ShortGeometry, BridgeCells("B1", 2) @@ NetType(1)),
      BuildSegment(ShortGeometry, BridgeCells("B1", 2) @@ NetType(2)),
      BuildSegment(ShortGeometry, BridgeCells("B1", 2)),
      \* under the bridge, code 3
      BuildSegment(ShortGeometry, BridgeCells("B1", 3) @@ NetType(2)),
      \* the middle layer, code 4: a road, a cycleway
      BuildSegment(ShortGeometry, BridgeCells("B1", 4) @@ NetType(1)),
      BuildSegment(ShortGeometry, BridgeCells("B1", 4) @@ NetType(2)),
      \* a cycleway under another bridge
      BuildSegment(ShortGeometry, BridgeCells("B2", 2) @@ NetType(2)),
      \* a code-2 road with no bridge identity
      BuildSegment(ShortGeometry, ("Konst_190" :> IntCell(2)) @@ NetType(1)) }

BridgeInit ==
    /\ input \in UNION { [1..n -> BridgeRows] : n \in 1..MaxGroup }
    /\ segments = input
    /\ pc = "detect_bridges"
    /\ cfg = <<>>
    /\ nodes = <<>> /\ ways = <<>> /\ out = <<>>
    /\ node_id = 0 /\ way_id = 0 /\ junction_ids = EmptyMap
    /\ idx = 0 /\ fin = EmptyMap /\ fout = <<>>

\* the bridge table of the network
BridgeDetect ==
    /\ pc = "detect_bridges"
    /\ fin' = detect_bridges(segments)
    /\ pc' = "tag_segments"
    /\ UNCHANGED <<cfg, input, segments, nodes, ways, out, node_id, way_id,
                   junction_ids, idx, fout>>

\* tag_network on the whole network
BridgeTag ==
    /\ pc = "tag_segments"
    /\ segments' = tag_network(segments)
    /\ pc' = "tagged"
    /\ UNCHANGED <<cfg, input, nodes, ways, out, node_id, way_id,
                   junction_ids, idx, fin, fout>>

BridgeNext == BridgeDetect \/ BridgeTag

BridgeSpec == BridgeInit /\ [][BridgeNext]_vars

\* the rows of the group `id`, and what they are
GroupOf(id) ==
    { i \in 1..Len(input) :
        /\ Has(input[i].properties, "Ident_191")
        /\ Has(input[i].properties, "Konst_190")
        /\ as_string(input[i].properties["Ident_191"]) = id }

CodeOf(i) == UnwrapOr(SegI64(input[i], "Konst_190"), 0)

UnderBridge(id) ==
    { i \in GroupOf(id) :
        CodeOf(i) \in {2, 4} /\ IsSome(SegI64(input[i], "Vagtr_474")) }

CarsUnder(id) ==
    { i \in UnderBridge(id) : SegI64(input[i], "Vagtr_474") = Some(1) }

OverBridgeLengths(id) ==
    { input[i].shape_length : i \in { j \in GroupOf(id) : CodeOf(j) = 1 } }

\* the group tag by the rule, from the rows as a set
GroupTag(id) ==
    IF Cardinality(CarsUnder(id)) > 0
       \/ \E len \in OverBridgeLengths(id) : len > BridgeMargin
    THEN "bridge"
    ELSE IF Cardinality(UnderBridge(id) \ CarsUnder(id)) > 0 THEN "tunnel"
    ELSE "bridge"

Permuted(order) == [k \in 1..Len(order) |-> input[order[k]]]

C20_RoadUnderBridge ==
    /\ pc = "tagged"
    /\ Len(input) = 2
    /\ GroupOf("B1") = {1, 2}
    /\ CodeOf(1) = 2 /\ SegI64(input[1], "Vagtr_474") = Some(2)
    /\ CodeOf(2) = 4 /\ SegI64(input[2], "Vagtr_474") = Some(1)
    /\ fin["B1"].tag = "bridge"
    /\ ~Has(segments[1].tags, "tunnel")

-----------------------------------------------------------------------------
(* simplify_polygon applied twice to coordinate sequences of up to MaxPoints
   points *)

MaxPoints == 5

\* points on and near the line y = 0, some closer to it than epsilon
PolyPoints ==
    {Coord(0, 0), Coord(Step, 0), Coord(2 * Step, 0),
     Coord(Step, 10), Coord(Step, Step), Coord(2 * Step, 10)}

\* twice the square of epsilon: a hair, SIMPLIFY_FACTOR, and 50 units
PolyEpsilons == {1, TwiceEpsilonSq, 5000}

PolyInit ==
    /\ input \in UNION { [1..n -> PolyPoints] : n \in 0..MaxPoints }
    /\ cfg \in PolyEpsilons
    /\ pc = "simplify"
    /\ segments = <<>> /\ nodes = <<>> /\ ways = <<>> /\ out = <<>>
    /\ node_id = 0 /\ way_id = 0 /\ junction_ids = EmptyMap
    /\ idx = 0 /\ fin = <<>> /\ fout = <<>>

\* simplify_polygon(input, epsilon)
PolyOnce ==
    /\ pc = "simplify"
    /\ fout' = simplify_polygon_eps(input, cfg)
    /\ pc' = "simplified"
    /\ UNCHANGED <<cfg, input, segments, nodes, ways, out, node_id, way_id,
                   junction_ids, idx, fin>>

\* simplify_polygon on its own result
PolyAgain ==
    /\ pc = "simplified"
    /\ fin' = simplify_polygon_eps(fout, cfg)
    /\ pc' = "simplified_again"
    /\ UNCHANGED <<cfg, input, segments, nodes, ways, out, node_id, way_id,
                   junction_ids, idx, fout>>

PolyNext == PolyOnce \/ PolyAgain

PolySpec == PolyInit /\ [][PolyNext]_vars

\* r can be had from g by deleting points
RECURSIVE IsSubsequence(_, _)
IsSubsequence(r, g) ==
    IF Len(r) = 0 THEN TRUE
    ELSE IF Len(g) = 0 THEN FALSE
    ELSE IF Head(r) = Head(g) THEN IsSubsequence(Tail(r), Tail(g))
    ELSE IsSubsequence(r, Tail(g))

\* C21: simplify_polygon is idempotent, and its result is a subsequence of
\* its argument that keeps the argument's first and last point.
C21_SimplifyIdempotent ==
    /\ pc = "simplified_again" => fin = fout
    /\ pc # "simplify" =>
          /\ IsSubsequence(fout, input)
          /\ Len(input) = 0 => fout = <<>>
          /\ Len(input) = 1 => fout = input
          /\ Len(input) >= 2 =>
                /\ Len(fout) >= 2
                /\ fout[1] = input[1]
                /\ fout[Len(fout)] = input[Len(input)]

\* five points, of which one is kept for its distance and two are dropped
C21_Witness ==
    /\ pc = "simplified_again"
    /\ cfg = TwiceEpsilonSq
    /\ Len(input) = 5
    /\ Len(fout) = 3
    /\ fout[2] = Coord(Step, Step)
    /\ fin = fout

-----------------------------------------------------------------------------
(* generate_nodes_for_segment on one segment with up to two of the driving
   attributes *)

\* the values tried for each driving attribute: its listed set and around it
DrivingValues ==
    [Passa_85 |-> 0..6, Vagsk_100 |-> 0..8, TypAv_82 |-> 0..10,
     Hinde_72 |-> (0..7) \cup {98, 99},
     F_ATK_Matplats |-> {0, 1}, B_ATK_Matplats |-> {0, 1},
     Rastplats |-> {0, 1, 2},
     L_Rastficka_2 |-> {0, 1}, R_Rastficka_2 |-> {0, 1}]

DrivingCells ==
    UNION { { [attr |-> a, v |-> v] : v \in DrivingValues[a] } :
            a \in DOMAIN DrivingValues }

NodeRows ==
    {NoCells}
    \cup { c.attr :> IntCell(c.v) : c \in DrivingCells }
    \cup { (p[1].attr :> IntCell(p[1].v)) @@ (p[2].attr :> IntCell(p[2].v)) :
             p \in { q \in DrivingCells \X DrivingCells : q[1].attr # q[2].attr } }

NodeGenInit ==
    /\ \E row \in NodeRows : input = BuildSegment(<<P(1, 2), P(2, 2)>>, row)
    /\ cfg \in {-5, 1}
    /\ pc = "generate_nodes"
    /\ segments = <<>> /\ nodes = <<>> /\ ways = <<>> /\ out = <<>>
    /\ node_id = 0 /\ way_id = 0 /\ junction_ids = EmptyMap
    /\ idx = 0 /\ fin = <<>> /\ fout = <<>>

\* generate_nodes_for_segment(&segment, next_id)
NodeGenCall ==
    /\ pc = "generate_nodes"
    /\ LET r == generate_nodes_for_segment(input, cfg)
       IN  nodes' = r.nodes /\ node_id' = r.next_id
    /\ pc' = "generated"
    /\ UNCHANGED <<cfg, input, segments, ways, out, way_id, junction_ids,
                   idx, fin, fout>>

NodeGenNext == NodeGenCall

NodeGenSpec == NodeGenInit /\ [][NodeGenNext]_vars

\* the driving attribute is present with a value in the set
Driven(attr, set) ==
    IsSome(SegI64(input, attr)) /\ Unwrap(SegI64(input, attr)) \in set

\* a node with the tag key = value has been emitted
Emitted(key, value) ==
    \E k \in 1..Len(nodes) : Get(nodes[k].tags, key) = Some(value)

EmittedKey(key) == \E k \in 1..Len(nodes) : Has(nodes[k].tags, key)

\* position and numbering of the emitted nodes
NodesPlacedAndNumbered ==
    /\ \A k \in 1..Len(nodes) :
          /\ nodes[k].lon = input.geometry[1].x
          /\ nodes[k].lat = input.geometry[1].y
          /\ nodes[k].id = cfg + k - 1
    /\ node_id = cfg + Len(nodes)

\* C22: a feature node of a class is emitted if and only if the class's
\* driving attribute is in its listed set; every node is at the segment's
\* first coordinate and the next ID is the starting ID plus the number of
\* nodes.
C22_NodeIffAttributeListed ==
    pc = "generated" =>
        /\ Emitted("highway", "crossing") <=> Driven("Passa_85", {3, 4, 5})
        /\ EmittedKey("railway") <=> Driven("Vagsk_100", 1..7)
        /\ EmittedKey("traffic_calming") <=> Driven("TypAv_82", 1..9)
        /\ EmittedKey("barrier") <=> Driven("Hinde_72", (1..6) \cup {99})
        /\ Emitted("highway", "speed_camera") <=>
              (Truthy(input, "F_ATK_Matplats") \/ Truthy(input, "B_ATK_Matplats"))
        /\ Emitted("highway", "rest_area") <=> Truthy(input, "Rastplats")
        /\ Emitted("amenity", "parking") <=>
              (Truthy(input, "L_Rastficka_2") \/ Truthy(input, "R_Rastficka_2"))
        /\ NodesPlacedAndNumbered

\* a segment whose only attribute is Vagsk_100 = 0 gets a railway node
C22_RailwayNodeForZero ==
    /\ pc = "generated"
    /\ input.properties = ("Vagsk_100" :> PInt(0))
    /\ Len(nodes) = 1
    /\ nodes[1].tags = ("railway" :> "crossing")

\* the claim holds of every class but the railway crossing, whose node is
\* emitted whenever Vagsk_100 is present
C22_AllButRailway ==
    pc = "generated" =>
        /\ Emitted("highway", "crossing") <=> Driven("Passa_85", {3, 4, 5})
        /\ EmittedKey("railway") <=> IsSome(SegI64(input, "Vagsk_100"))
        /\ EmittedKey("traffic_calming") <=> Driven("TypAv_82", 1..9)
        /\ EmittedKey("barrier") <=> Driven("Hinde_72", (1..6) \cup {99})
        /\ Emitted("highway", "speed_camera") <=>
              (Truthy(input, "F_ATK_Matplats") \/ Truthy(input, "B_ATK_Matplats"))
        /\ Emitted("highway", "rest_area") <=> Truthy(input, "Rastplats")
        /\ Emitted("amenity", "parking") <=>
              (Truthy(input, "L_Rastficka_2") \/ Truthy(input, "R_Rastficka_2"))
        /\ NodesPlacedAndNumbered

-----------------------------------------------------------------------------
(* models/mod.rs: impl From<&str> for SimplifyMethod *)

\* a variant that compares the string as it is given
SimplifyMethodFromExact(s) ==
    CASE s = "recursive" -> "Recursive"
      [] s = "route" -> "Route"
      [] s = "refname" -> "Refname"
      [] s = "linear" -> "Linear"
      [] s = "segment" -> "Segment"
      [] OTHER -> "Refname"

\* SimplifyMethod::from(s): the match is on s.to_lowercase()
SimplifyMethodFrom(s) ==
    LET lower == ToLowercase(s)
    IN  CASE lower = "recursive" -> "Recursive"
          [] lower = "route" -> "Route"
          [] lower = "refname" -> "Refname"
          [] lower = "linear" -> "Linear"
          [] lower = "segment" -> "Segment"
          [] OTHER -> "Refname"

\* the five names in four spellings, and names that are none of them
MethodWords ==
    {"recursive", "Recursive", "RECURSIVE", "recurSive",
     "route", "Route", "ROUTE", "rOute",
     "refname", "Refname", "REFNAME", "refName",
     "linear", "Linear", "LINEAR", "lineaR",
     "segment", "Segment", "SEGMENT", "sEGMENT",
     "", "none", "refnam", "default", "line"}

\* the words alone, and with a space or a letter around them
MethodStrings ==
    { before \o word \o after :
        before \in {"", " "}, word \in MethodWords, after \in {"", " ", "s"} }

MethodInit ==
    /\ input \in MethodStrings
    /\ pc = "from"
    /\ cfg = <<>>
    /\ segments = <<>> /\ nodes = <<>> /\ ways = <<>> /\ out = <<>>
    /\ node_id = 0 /\ way_id = 0 /\ junction_ids = EmptyMap
    /\ idx = 0 /\ fin = <<>> /\ fout = ""

MethodSelect ==
    /\ pc = "from"
    /\ fout' = SimplifyMethodFrom(input)
    /\ pc' = "selected"
    /\ UNCHANGED <<cfg, input, segments, nodes, ways, out, node_id, way_id,
                   junction_ids, idx, fin>>

MethodNext == MethodSelect

MethodSpec == MethodInit /\ [][MethodNext]_vars

MethodOfName ==
    [recursive |-> "Recursive", route |-> "Route", refname |-> "Refname",
     linear |-> "Linear", segment |-> "Segment"]

\* C23 as stated: exactly the five names select their method and every
\* other string selects refname.
C23_ExactlyFiveNames ==
    pc = "selected" =>
        IF input \in DOMAIN MethodOfName THEN fout = MethodOfName[input]
        ELSE fout = "Refname"

\* C23 amended: the five names select their method in any mix of upper and
\* lower case, and every string that is none of them when lowercased
\* (the empty string and names with anything around them included) selects
\* refname.
C23_FiveNamesInAnyCase ==
    pc = "selected" =>
        IF ToLowercase(input) \in DOMAIN MethodOfName
        THEN fout = MethodOfName[ToLowercase(input)]
        ELSE fout = "Refname"

\* "LINEAR" selects linear
C23_Witness == pc = "selected" /\ input = "LINEAR" /\ fout = "Linear"

\* "", "linear " and "none" select refname

C23_UnknownSelectsRefname ==
    pc = "selected" /\ input \in {"", "linear ", "none"} => fout = "Refname"

-----------------------------------------------------------------------------
(* Claims about the chaining of simplify_linear, checked under Spec *)

\* C24: under the methods linear, refname and route, any two consecutive
\* segments of a way meet end to start, belong to the same group and turn
\* by less than ANGLE_MARGIN degrees, whether the way grew forwards or
\* backwards.
C24_ConsecutiveSegmentsChain ==
    (Simplified /\ cfg.method \in LinearMethods) =>
        \A w \in 1..Len(ways) :
            \A k \in 1..(Len(ways[w].segment_indices) - 1) :
                LET a == segments[ways[w].segment_indices[k]]
                    b == segments[ways[w].segment_indices[k + 1]]
                IN  /\ a.end_node = b.start_node
                    /\ GroupId(a, cfg.method) = GroupId(b, cfg.method)
                    /\ Abs(compute_junction_angle(a, b)) < ANGLE_MARGIN

\* a later row was prepended to the first row, and two rows of one group
\* that meet at a right angle or more lie in different ways
C24_Witness ==
    /\ pc = "pass0"
    /\ cfg.method = "Linear"
    /\ \E w \in 1..Len(ways) :
          /\ Len(ways[w].segment_indices) >= 2
          /\ ways[w].segment_indices[2] = 1
          /\ ways[w].segment_indices[1] > 1
    /\ \E i, j \in 1..Len(segments) :
          /\ segments[i].end_node = segments[j].start_node
          /\ segments[i].start_node # segments[j].end_node
          /\ GroupId(segments[i], cfg.method) = GroupId(segments[j], cfg.method)
          /\ Abs(compute_junction_angle(segments[i], segments[j])) >= ANGLE_MARGIN
          /\ WaysOf(i) # WaysOf(j)

-----------------------------------------------------------------------------
(* The pipeline on networks with closed loops at the end of a street *)

LoopCatalogue ==
    { \* a street running east, and its continuation
      BuildSegment(<<P(0, 0), P(1, 0)>>, NoCells),
      BuildSegment(<<P(1, 0), P(2, 0)>>, NoCells),
      \* the continuation with a speed limit
      BuildSegment(<<P(1, 0), P(2, 0)>>,
          ("F_Hogst_225" :> IntCell(50)) @@ ("B_Hogst_225" :> IntCell(50))),
      \* a side street
      BuildSegment(<<P(1, 0), P(1, 1)>>, NoCells),
      \* a loop that leaves the street's end eastwards and returns to it
      BuildSegment(<<P(1, 0), P(2, 0), P(2, 1), P(1, 1), P(1, 0)>>, NoCells),
      \* a loop that returns to its start eastwards
      BuildSegment(<<P(1, 0), P(1, 1), P(0, 1), P(0, 0), P(1, 0)>>, NoCells) }

LoopInit ==
    /\ cfg \in { [method |-> m, node_id_start |-> 1, way_id_start |-> 1] :
                    m \in Methods }
    /\ input \in UNION { [1..n -> LoopCatalogue] : n \in 1..MaxSegs }
    /\ segments = input
    /\ pc = "tag_network"
    /\ nodes = <<>> /\ ways = <<>> /\ out = <<>>
    /\ node_id = cfg.node_id_start
    /\ way_id = cfg.way_id_start
    /\ junction_ids = EmptyMap
    /\ idx = 0 /\ fin = <<>> /\ fout = <<>>

LoopSpec == LoopInit /\ [][Next]_vars

\* the segments that start or end at h, each counted once
DistinctIncident(h) ==
    Cardinality({ i \in 1..Len(segments) :
                    segments[i].start_node = h \/ segments[i].end_node = h })

\* b continues a: end to start, same group, same tags, within the margin
Continues(a, b) ==
    /\ a # b
    /\ segments[a].end_node = segments[b].start_node
    /\ GroupId(segments[a], cfg.method) = GroupId(segments[b], cfg.method)
    /\ segments[a].tags = segments[b].tags
    /\ Abs(compute_junction_angle(segments[a], segments[b])) < ANGLE_MARGIN

\* C25: under the linear methods, two segments of which one continues the
\* other with the same tag map lie in different ways only if 3 or more
\* distinct segments meet at their shared end point, a closed loop counting
\* once.  (Where fewer than 3 distinct segments meet, the two are each
\* other's only candidate there, so the chaining does join them.)
C25_SplitOnlyWhereThreeSegmentsMeet ==
    (Simplified /\ cfg.method \in LinearMethods) =>
        \A a, b \in 1..Len(segments) :
            (Continues(a, b) /\ WaysOf(a) # WaysOf(b)) =>
                DistinctIncident(segments[a].end_node) >= 3

\* a street and the loop at its end, and nothing else: two ways
C25_LoopCountedTwice ==
    /\ pc = "pass0"
    /\ cfg.method = "Linear"
    /\ Len(segments) = 2
    /\ Continues(1, 2)
    /\ segments[2].start_node = segments[2].end_node
    /\ DistinctIncident(segments[1].end_node) = 2
    /\ Incident(segments[1].end_node) = 3
    /\ Len(ways) = 2

\* counted by segment ends, as build_junctions does, the statement holds
C25_SplitOnlyWhereThreeEndsMeet ==
    (Simplified /\ cfg.method \in LinearMethods) =>
        \A a, b \in 1..Len(segments) :
            (Continues(a, b) /\ WaysOf(a) # WaysOf(b)) =>
                Incident(segments[a].end_node) >= 3

-----------------------------------------------------------------------------
(* parse_wkb on well-formed buffers, on every prefix of them and on copies
   with one header byte changed *)

\* the type word: the base type in the low bytes, the EWKB flags in the top
EncodeType(base, top, little_endian) ==
    LET le == <<base % 256, base \div 256, 0, top>>
    IN  IF little_endian THEN le ELSE Reverse(le)

\* the number of Z and M ordinates a type word announces
ExtraDims(base, top) ==
    (IF top >= 128 \/ base \div 1000 \in {1, 3} THEN 1 ELSE 0)
    + (IF (top \div 64) % 2 = 1 \/ base \div 1000 \in {2, 3} THEN 1 ELSE 0)

\* byte order, type word, and SRID 4326 when the flag 0x20 is in `top`
EncodeHeader(little_endian, base, top) ==
    <<IF little_endian THEN 1 ELSE 0>>
    \o EncodeType(base, top, little_endian)
    \o (IF (top \div 32) % 2 = 1 THEN EncodeU32(4326, little_endian)
        ELSE <<>>)

EncodePointsDims(points, little_endian, extra) ==
    Flatten([i \in 1..Len(points) |->
        EncodeF64(points[i].x, little_endian)
        \o EncodeF64(points[i].y, little_endian)
        \o [k \in 1..(8 * extra) |-> 0]])

EncodeLineString(little_endian, base, top, points) ==
    EncodeHeader(little_endian, base, top)
    \o EncodeU32(Len(points), little_endian)
    \o EncodePointsDims(points, little_endian, ExtraDims(base, top))

\* <<base, top>>: plain, EWKB Z, EWKB M, ISO Z, ISO ZM, each with and
\* without the SRID flag
TypeWords ==
    {<<2, 0>>, <<2, 128>>, <<2, 64>>, <<1002, 0>>, <<3002, 0>>,
     <<2, 32>>, <<2, 160>>, <<2, 96>>, <<1002, 32>>, <<3002, 32>>}

PointLists == {<<>>, <<T(1, 2)>>, <<T(1, 2), T(2, 2)>>}

WellFormedLineStrings ==
    { [bytes |-> EncodeLineString(le, w[1], w[2], pts),
       kind |-> "LineString", srid |-> (w[2] \div 32) % 2 = 1,
       points |-> pts, parts |-> 0, intact |-> TRUE] :
        le \in BOOLEAN, w \in TypeWords, pts \in PointLists }

\* a MultiLineString of `n` copies of one LineString
WellFormedMultiLineStrings ==
    { [bytes |-> EncodeHeader(le, 5, top)
                 \o EncodeU32(n, le)
                 \o Flatten([k \in 1..n |->
                        EncodeLineString(le, w[1], w[2], pts)]),
       kind |-> "MultiLineString", srid |-> top = 32,
       points |-> IF n = 0 THEN <<>> ELSE pts, parts |-> n,
       intact |-> TRUE] :
        le \in BOOLEAN, top \in {0, 32}, n \in 0..2,
        w \in {<<2, 0>>, <<2, 32>>, <<1002, 0>>},
        pts \in {<<T(1, 2)>>, <<T(1, 2), T(2, 2)>>} }

\* a Point, a Polygon header, a MultiLineString whose part is a Point
OtherGeometries ==
    { [bytes |-> EncodeHeader(TRUE, 1, 0)
                 \o EncodePointsDims(<<T(1, 2)>>, TRUE, 0),
       kind |-> "Point", srid |-> FALSE, points |-> <<>>, parts |-> 0,
       intact |-> TRUE],
      [bytes |-> EncodeHeader(TRUE, 3, 0) \o EncodeU32(1, TRUE)
                 \o EncodeU32(2, TRUE)
                 \o EncodePointsDims(<<T(1, 2), T(2, 2)>>, TRUE, 0),
       kind |-> "Polygon", srid |-> FALSE, points |-> <<>>, parts |-> 0,
       intact |-> TRUE],
      [bytes |-> EncodeHeader(TRUE, 5, 0) \o EncodeU32(1, TRUE)
                 \o EncodeHeader(TRUE, 1, 0)
                 \o EncodePointsDims(<<T(1, 2)>>, TRUE, 0),
       kind |-> "MultiLineStringOfPoint", srid |-> FALSE, points |-> <<>>,
       parts |-> 1, intact |-> TRUE] }

WellFormed ==
    WellFormedLineStrings \cup WellFormedMultiLineStrings \cup OtherGeometries

\* the values a changed byte takes
ChangedBytes == {0, 1, 2, 5, 32, 255}

\* the first bytes of a buffer, where byte order, types and counts lie
HeaderBytes == 18

Truncated(g) ==
    { [g EXCEPT !.bytes = SubSeq(g.bytes, 1, n), !.intact = FALSE] :
        n \in 0..(Len(g.bytes) - 1) }

Changed(g) ==
    { [g EXCEPT !.bytes[k] = b, !.intact = FALSE] :
        k \in { j \in 1..Len(g.bytes) : j <= HeaderBytes },
        b \in ChangedBytes }

WkbInit ==
    /\ input \in WellFormed
                 \cup UNION { Truncated(g) : g \in WellFormed }
                 \cup UNION { Changed(g) : g \in WellFormed }
    /\ pc = "parse_wkb"
    /\ cfg = <<>>
    /\ segments = <<>> /\ nodes = <<>> /\ ways = <<>> /\ out = <<>>
    /\ node_id = 0 /\ way_id = 0 /\ junction_ids = EmptyMap
    /\ idx = 0 /\ fin = <<>> /\ fout = <<>>

WkbParse ==
    /\ pc = "parse_wkb"
    /\ fout' = parse_wkb(input.bytes)
    /\ pc' = "parsed"
    /\ UNCHANGED <<cfg, input, segments, nodes, ways, out, node_id, way_id,
                   junction_ids, idx, fin>>

WkbNext == WkbParse

WkbSpec == WkbInit /\ [][WkbNext]_vars

\* C26: a well-formed LineString or MultiLineString (of at least one part)
\* parses to its points, with the SRID flag as without it: the 4 SRID bytes
\* after a flagged type word are skipped before the next field is read.
C26_SridBytesSkipped ==
    (pc = "parsed" /\ input.intact
       /\ \/ input.kind = "LineString"
          \/ input.kind = "MultiLineString" /\ input.parts > 0) =>
        fout = Some(input.points)

\* a MultiLineString with the SRID flag and one part of two points fails
C26_MultiLineStringWithSrid ==
    /\ pc = "parsed"
    /\ input.intact
    /\ input.kind = "MultiLineString" /\ input.srid /\ input.parts = 1
    /\ Len(input.points) = 2
    /\ fout = None

\* what does hold: the SRID is skipped in a LineString, alone or as the
\* first part, and in a MultiLineString without the flag on the outer type
C26_SridSkippedInLineString ==
    (pc = "parsed" /\ input.intact
       /\ \/ input.kind = "LineString"
          \/ input.kind = "MultiLineString" /\ input.parts > 0 /\ ~input.srid)
        => fout = Some(input.points)

\* the byte order and base type a buffer of 5 or more bytes announces
AnnouncedLittleEndian == input.bytes[1] = 1

AnnouncedBaseType ==
    CleanGeomType(read_u32(input.bytes, 1, AnnouncedLittleEndian)) % 1000

\* a proper prefix of a buffer that holds one LineString
CutShort ==
    /\ ~input.intact
    /\ \/ input.kind = "LineString"
       \/ input.kind = "MultiLineString" /\ input.parts = 1
    /\ \E g \in WellFormed :
          /\ g.kind = input.kind /\ g.points = input.points
          /\ g.parts = input.parts
          /\ Len(g.bytes) > Len(input.bytes)
          /\ SubSeq(g.bytes, 1, Len(input.bytes)) = input.bytes

\* C27: parse_wkb returns a failure or a linestring whose points all lie
\* inside the buffer; it fails on a byte order other than 0 and 1, on a
\* base type other than 2 and 5, on a MultiLineString with no part or with
\* a first part that is not a LineString, and on a buffer too short for
\* the points it declares.
C27_ParseFailsOrStaysInside ==
    pc = "parsed" =>
        /\ \/ fout = None
           \/ /\ IsSome(fout)
              /\ Len(input.bytes) >= 9 + 16 * Len(Unwrap(fout))
        /\ Len(input.bytes) < 9 => fout = None
        /\ (Len(input.bytes) >= 9 /\ input.bytes[1] \notin {0, 1})
              => fout = None
        /\ (Len(input.bytes) >= 9 /\ input.bytes[1] \in {0, 1}
              /\ AnnouncedBaseType \notin {2, 5}) => fout = None
        /\ (input.intact /\ input.kind = "MultiLineString" /\ input.parts = 0)
              => fout = None
        /\ (input.intact /\ input.kind = "MultiLineStringOfPoint")
              => fout = None
        /\ CutShort => fout = None

\* a LineString of two points that has lost its last byte
C27_Witness ==
    /\ pc = "parsed"
    /\ input.kind = "LineString" /\ ~input.srid
    /\ Len(input.bytes) = 40
    /\ SubSeq(input.bytes, 1, 9) = <<1, 2, 0, 0, 0, 2, 0, 0, 0>>
    /\ fout = None

-----------------------------------------------------------------------------
(* geometry/mod.rs: compute_junction_angle on its own, for a segment that
   runs into a junction and a segment that leaves it, and for pairs of
   bearings in whole degrees. *)

Directions == { <<0, 1>>, <<1, 0>>, <<0, -1>>, <<-1, 0>> }

Shift(c, d, n) == Coord(c.x + n * d[1] * Step, c.y + n * d[2] * Step)

Junctions == { P(2, 2), P(3, 2) }

\* geometries of two and three points that end in j
Arriving(j) ==
    { <<Shift(j, d, -1), j>> : d \in Directions }
        \cup { <<Shift(Shift(j, d, -1), f, -1), Shift(j, d, -1), j>> :
                   d \in Directions, f \in Directions }

\* geometries of two and three points that start in j
Leaving(j) ==
    { <<j, Shift(j, d, 1)>> : d \in Directions }
        \cup { <<j, Shift(j, d, 1), Shift(Shift(j, d, 1), f, 1)>> :
                   d \in Directions, f \in Directions }

SegmentPairs ==
    UNION { { [kind |-> "segments",
               seg1 |-> BuildSegment(a, NoCells),
               seg2 |-> BuildSegment(b, NoCells)] :
                 a \in Arriving(j), b \in Leaving(j) } : j \in Junctions }

\* bearings as compute_bearing returns them, in whole degrees
Bearings ==
    { 30 * k : k \in 0..11 } \cup { 1, 89, 91, 179, 181, 269, 271, 359 }

BearingPairs ==
    { [kind |-> "bearings", bearing1 |-> b1, bearing2 |-> b2] :
        b1 \in Bearings, b2 \in Bearings }

AngleInit ==
    /\ input \in SegmentPairs \cup BearingPairs
    /\ pc = "compute_junction_angle"
    /\ cfg = <<>>
    /\ segments = <<>> /\ nodes = <<>> /\ ways = <<>> /\ out = <<>>
    /\ node_id = 0 /\ way_id = 0 /\ junction_ids = EmptyMap
    /\ idx = 0 /\ fin = <<>> /\ fout = <<>>

\* compute_junction_angle(&seg1, &seg2)
AngleOfSegments ==
    /\ pc = "compute_junction_angle"
    /\ input.kind = "segments"
    /\ fout' = compute_junction_angle(input.seg1, input.seg2)
    /\ pc' = "angle"
    /\ UNCHANGED <<cfg, input, segments, nodes, ways, out, node_id, way_id,
                   junction_ids, idx, fin>>

\* the last lines of compute_junction_angle, from the two bearings on
AngleOfBearings ==
    /\ pc = "compute_junction_angle"
    /\ input.kind = "bearings"
    /\ fout' = JunctionDelta(input.bearing1, input.bearing2)
    /\ pc' = "angle"
    /\ UNCHANGED <<cfg, input, segments, nodes, ways, out, node_id, way_id,
                   junction_ids, idx, fin>>

AngleNext == AngleOfSegments \/ AngleOfBearings

AngleSpec == AngleInit /\ [][AngleNext]_vars

\* the last step of seg1 and the first step of seg2, as vectors (east, north)
StepIn ==
    LET g == input.seg1.geometry
    IN  <<g[Len(g)].x - g[Len(g) - 1].x, g[Len(g)].y - g[Len(g) - 1].y>>

StepOut ==
    LET g == input.seg2.geometry
    IN  <<g[2].x - g[1].x, g[2].y - g[1].y>>

\* the third component of StepIn x StepOut: positive when the way bends
\* counterclockwise (to the left), negative when it bends clockwise
Cross == StepIn[1] * StepOut[2] - StepIn[2] * StepOut[1]

\* C28: compute_junction_angle returns the outgoing minus the incoming
\* bearing brought into (-180, 180], and a positive result is a left turn,
\* a negative result a right turn.
C28_PositiveIsLeftTurn ==
    pc = "angle" =>
        /\ fout > -180 /\ fout <= 180
        /\ input.kind = "segments" =>
              /\ (fout > 0 /\ fout < 180) => Cross > 0
              /\ fout < 0 => Cross < 0

\* heading north into the junction and east out of it gives +90
C28_NorthThenEast ==
    /\ pc = "angle"
    /\ input.kind = "segments"
    /\ StepIn = <<0, Step>> /\ StepOut = <<Step, 0>>
    /\ fout = 90

\* the range holds for every pair; the sign is the opposite one: a
\* positive result is a right turn, a negative result a left turn
C28_RangeAndPositiveIsRightTurn ==
    pc = "angle" =>
        /\ fout > -180 /\ fout <= 180
        /\ input.kind = "bearings" =>
              \E k \in -1..1 :
                  fout = input.bearing2 - input.bearing1 + 360 * k
        /\ input.kind = "segments" =>
              /\ (fout > 0 /\ fout < 180) => Cross < 0
              /\ fout < 0 => Cross > 0
              /\ fout \in {0, 180} => Cross = 0

-----------------------------------------------------------------------------
(* topology/mod.rs: the ways of simplify_network as a partition of the
   segments *)

\* all segment indices of all ways, way after way
AllSegmentIndices ==
    Flatten([w \in 1..Len(ways) |-> ways[w].segment_indices])

\* C29: for every method, the ways simplify_network returns hold valid
\* segment indices only, and every segment index occurs exactly once in
\* them; with method segment every way holds exactly one segment.
C29_WaysPartitionSegments ==
    Simplified =>
        /\ \A k \in 1..Len(AllSegmentIndices) :
              AllSegmentIndices[k] \in 1..Len(segments)
        /\ \A i \in 1..Len(segments) :
              Cardinality({ k \in 1..Len(AllSegmentIndices) :
                              AllSegmentIndices[k] = i }) = 1
        /\ \A w \in 1..Len(ways) : Len(ways[w].segment_indices) >= 1
        /\ cfg.method = "Segment" =>
              /\ Len(ways) = Len(segments)
              /\ \A w \in 1..Len(ways) : ways[w].segment_indices = <<w>>

\* three rows under a merging method: one way of two segments and one way
\* of one
C29_Witness ==
    /\ pc = "pass0"
    /\ cfg.method = "Refname"
    /\ Len(segments) = 3
    /\ Len(ways) = 2
    /\ \E w \in 1..2 : Len(ways[w].segment_indices) = 2

-----------------------------------------------------------------------------
(* lib.rs: write_pbf_three_pass, pass 3: the node list of a written way *)

\* C30: every way written references at least two nodes after the removal
\* of consecutive duplicates, also when the first and the last coordinate
\* of its segment have the same CoordHash.
C30_WayReferencesTwoNodes ==
    Written => \A w \in 1..Len(WayElements) : Len(WayElements[w].refs) >= 2

\* a way of one segment of two equal points was written with one node
C30_OneNodeWay ==
    /\ Written
    /\ \E w \in 1..Len(ways) :
          LET seg == segments[ways[w].segment_indices[1]]
          IN  /\ Len(ways[w].segment_indices) = 1
              /\ Len(seg.geometry) = 2
              /\ seg.geometry[1] = seg.geometry[2]
              /\ Len(WayElements[w].refs) = 1

\* a way whose segments' first and last coordinates all have different
\* hashes references at least two nodes
C30_TwoNodesUnlessEndsCoincide ==
    Written =>
        \A w \in 1..Len(WayElements) :
            (\A k \in 1..Len(ways[w].segment_indices) :
                LET seg == segments[ways[w].segment_indices[k]]
                IN  seg.start_node # seg.end_node)
                => Len(WayElements[w].refs) >= 2

====
